---- MODULE Spec2Model ----
(***************************************************************************)
(* Transaction orchestration over three interchangeable persistence        *)
(* backends (sqlite, mysql, firestore): the Connection of each backend,    *)
(* the Transaction Manager state machine built on it, the ItemDatastore    *)
(* statements and the ItemInteractor begin/commit/rollback pattern.        *)
(*                                                                         *)
(* The native drivers (aiosqlite, aiomysql, the firestore client) are      *)
(* modelled by what their calls do to a store: every native handle holds   *)
(* the statements it executed and has not yet committed (pending); a       *)
(* native commit applies them to the durable table, a native rollback or   *)
(* a close drops them, and a MySQL BEGIN implicitly commits them.          *)
(***************************************************************************)
EXTENDS Integers, Sequences, FiniteSets, TLC

\* ------------------------------------------------------------------ bounds
MaxId       == 2   \* identifiers the item table can generate
MaxHandles  == 2   \* native handles that can be opened in one run
MaxPending  == 2   \* statements one native handle can hold uncommitted
MaxFaults   == 2   \* native calls that can raise in one run
MaxOps      == 2   \* ItemInteractor operations started in one run

\* --------------------------------------------------------------- constants
SQLITE    == "sqlite"
MYSQL     == "mysql"
FIRESTORE == "firestore"
Backends  == {SQLITE, MYSQL, FIRESTORE}
SqlBackends == {SQLITE, MYSQL}

Managers == {1, 2}
Procs    == {1, 2}        \* requests in flight, each with its own ItemInteractor
Handles  == 1..MaxHandles
Ids      == 1..MaxId
None     == 0             \* Python None: no handle / no row
NoItem   == [name |-> "", price |-> 0]

\* ItemModel payloads (name, price); the price is kept in cents.
Widget == [name |-> "Widget", price |-> 999]
Gadget == [name |-> "Gadget", price |-> 100]

\* The statements ItemDatastore issues, and one read that does not begin with
\* the word SELECT.  head is the first word of sql.strip().upper().
Stmt(kind, head, id, item) == [kind |-> kind, head |-> head, id |-> id, item |-> item]
InsertStmt(item)     == Stmt("insert", "INSERT", None, item)
UpdateStmt(id, item) == Stmt("update", "UPDATE", id, item)
DeleteStmt(id)       == Stmt("delete", "DELETE", id, NoItem)
SelectAllStmt        == Stmt("select_all", "SELECT", None, NoItem)
SelectOneStmt(id)    == Stmt("select_one", "SELECT", id, NoItem)
WithSelectStmt       == Stmt("select_all", "WITH", None, NoItem)
NoStmt               == Stmt("none", "", None, NoItem)

Statements ==
    {InsertStmt(Widget), UpdateStmt(1, Gadget), DeleteStmt(1),
     SelectAllStmt, SelectOneStmt(1), WithSelectStmt}

IsMutating(stmt) == stmt.kind \in {"insert", "update", "delete"}

VARIABLES
    db_type,      \* DatabaseConfig.db_type
    connHandle,   \* Connection._connection / _client: handle or None
    nextHandle,   \* native handles opened so far
    hOpen,        \* native: hOpen[h] iff handle h is open
    pending,      \* native: statements executed on h and not yet committed
    durable,      \* native: the committed item table, id -> item or NoItem
    autoInc,      \* native: MySQL AUTO_INCREMENT counter of the item table
    mgrConn,      \* TransactionManager._connection_obj per manager
    active,       \* TransactionManager._transaction_active per manager
    faults,       \* native calls that raised so far
    last,         \* the last API call and its outcome
    tx,           \* per manager, the history of its open transaction
    proc,         \* per request, the ItemInteractor operation it is running
    started,      \* ItemInteractor operations started so far
    config,       \* the DatabaseConfig handed to the factories
    built,        \* what from_env and the factories returned
    env           \* the process environment from_env reads

vars == <<db_type, connHandle, nextHandle, hOpen, pending, durable, autoInc,
          mgrConn, active, faults, last, tx, proc, started, config, built, env>>

appVars == <<proc, started>>
facVars == <<config, built, env>>

EmptyTable == [i \in Ids |-> NoItem]

\* ------------------------------------------------------------ native store
\* One statement applied to a table; an insert carries the id it was given.
ApplyStmt(table, stmt) ==
    CASE stmt.kind = "insert" -> [table EXCEPT ![stmt.id] = stmt.item]
      [] stmt.kind = "update" ->
            IF table[stmt.id] # NoItem THEN [table EXCEPT ![stmt.id] = stmt.item]
            ELSE table
      [] stmt.kind = "delete" -> [table EXCEPT ![stmt.id] = NoItem]
      [] OTHER -> table

RECURSIVE ApplyAll(_, _)
ApplyAll(table, stmts) ==
    IF stmts = <<>> THEN table
    ELSE ApplyAll(ApplyStmt(table, Head(stmts)), Tail(stmts))

\* What a handle sees: the durable table with its own pending statements.
View(s, h) == ApplyAll(s.durable, s.pending[h])

RECURSIVE RowsFrom(_, _)
RowsFrom(table, i) ==
    IF i > MaxId THEN <<>>
    ELSE IF table[i] # NoItem
         THEN <<[id |-> i, name |-> table[i].name, price |-> table[i].price]>>
              \o RowsFrom(table, i + 1)
         ELSE RowsFrom(table, i + 1)

\* The rows of a table in identifier order.
Rows(table) == RowsFrom(table, 1)

MaxUsed(table) ==
    LET used == {i \in Ids : table[i] # NoItem}
    IN IF used = {} THEN 0 ELSE CHOOSE i \in used : \A j \in used : j <= i

\* The identifier the store generates for an insert through handle h.
GenId(s, h) ==
    IF s.db_type = MYSQL THEN s.autoInc + 1 ELSE MaxUsed(View(s, h)) + 1

\* The state the methods below read and change, as one record.
Cur == [db_type |-> db_type, connHandle |-> connHandle, nextHandle |-> nextHandle,
        hOpen |-> hOpen, pending |-> pending, durable |-> durable,
        autoInc |-> autoInc, mgrConn |-> mgrConn, active |-> active]

SetCur(s) ==
    /\ db_type' = s.db_type
    /\ connHandle' = s.connHandle
    /\ nextHandle' = s.nextHandle
    /\ hOpen' = s.hOpen
    /\ pending' = s.pending
    /\ durable' = s.durable
    /\ autoInc' = s.autoInc
    /\ mgrConn' = s.mgrConn
    /\ active' = s.active

\* Outcomes of a call: it returns ret, or raises err.
\* nat lists the native calls the call made, sql the statement an error names.
Returned(s, ret, nat) ==
    [s |-> s, ok |-> TRUE, ret |-> ret, err |-> "", sql |-> NoStmt, nat |-> nat]
Raised(s, err, nat) ==
    [s |-> s, ok |-> FALSE, ret |-> <<>>, err |-> err, sql |-> NoStmt, nat |-> nat]
RaisedFor(s, err, stmt) ==
    [s |-> s, ok |-> FALSE, ret |-> <<>>, err |-> err, sql |-> stmt, nat |-> <<>>]

\* ------------------------------------------------------------ native calls
\* aiosqlite.connect / aiomysql.connect / firestore.Client: a new open handle.
NativeOpen(s) ==
    LET h == s.nextHandle + 1
    IN [s EXCEPT !.nextHandle = h, !.hOpen[h] = TRUE, !.pending[h] = <<>>]

\* close(): the handle is closed and what it had not committed is dropped.
NativeClose(s, h) == [s EXCEPT !.hOpen[h] = FALSE, !.pending[h] = <<>>]

\* commit(): the pending statements of the handle become durable, in order.
NativeCommit(s, h) == [s EXCEPT !.durable = View(s, h), !.pending[h] = <<>>]

\* rollback(): the pending statements of the handle are dropped.
NativeRollback(s, h) == [s EXCEPT !.pending[h] = <<>>]

\* MySQL BEGIN: starting a transaction implicitly commits the open one.
NativeBegin(s, h) == NativeCommit(s, h)

\* cursor.rowcount after the statement ran against the table the handle saw:
\* the rows inserted, deleted or updated (sqlite counts the rows an UPDATE
\* matched, MySQL the rows it changed).
RowCount(s, table, stmt) ==
    CASE stmt.kind = "insert" -> 1
      [] stmt.kind = "delete" -> IF table[stmt.id] # NoItem THEN 1 ELSE 0
      [] stmt.kind = "update" ->
            IF table[stmt.id] = NoItem THEN 0
            ELSE IF s.db_type = MYSQL /\ table[stmt.id] = stmt.item THEN 0 ELSE 1
      [] OTHER -> IF s.db_type = MYSQL THEN Len(Rows(table)) ELSE 0 - 1

\* fetchall() of a read statement against the table the handle sees.
FetchAll(table, stmt) ==
    CASE stmt.kind = "select_all" -> Rows(table)
      [] stmt.kind = "select_one" ->
            SelectSeq(Rows(table), LAMBDA r : r.id = stmt.id)
      [] OTHER -> <<>>

\* execute(sql, params): a mutating statement joins the pending statements of
\* the handle (an insert with the identifier the store generates for it).
NativeExecute(s, h, stmt) ==
    IF stmt.kind = "insert"
    THEN LET id == GenId(s, h)
         IN [s EXCEPT !.pending[h] = Append(@, [stmt EXCEPT !.id = id]),
                      !.autoInc = IF s.db_type = MYSQL THEN id ELSE @]
    ELSE IF IsMutating(stmt)
         THEN [s EXCEPT !.pending[h] = Append(@, stmt)]
         ELSE s

\* ---------------------------------------------------------- configuration
\* None among strings (an unset Optional[str] field).
NoneStr == "None"

DEFAULT_SQLITE_PATH    == "db.sqlite3"
DEFAULT_MYSQL_HOST     == "localhost"
DEFAULT_MYSQL_PORT     == 3306
DEFAULT_MYSQL_USER     == "root"
DEFAULT_MYSQL_PASSWORD == ""
DEFAULT_MYSQL_DATABASE == "test"

\* What a constructor or factory call gives: the object it returns or the
\* error it raises, and the native calls it made.
Constructed(obj) == [ok |-> TRUE, obj |-> obj, err |-> "", nat |-> <<>>]
Refused(obj, err) == [ok |-> FALSE, obj |-> obj, err |-> err, nat |-> <<>>]

\* The process environment: each variable unset or set to a string.
Unset == NoneStr

Envs ==
    [DB_TYPE : {Unset, "sqlite", "mysql", "MySQL", "firestore", "postgres"},
     SQLITE_DB_PATH : {Unset, "items.db"},
     MYSQL_HOST : {Unset, "", "db"},
     MYSQL_PORT : {Unset, "0", "3307", "abc"},
     MYSQL_USER : {Unset},
     MYSQL_PASSWORD : {Unset, "", "secret"},
     MYSQL_DATABASE : {Unset},
     FIRESTORE_PROJECT_ID : {Unset, "", "proj"},
     FIRESTORE_CREDENTIALS_PATH : {Unset, "cred.json"}]

\* The environment with nothing set.
NoEnv == CHOOSE e \in Envs : \A name \in DOMAIN e : e[name] = Unset

\* os.getenv(name, default)
Getenv(environ, name, default) == IF environ[name] = Unset THEN default ELSE environ[name]

\* str.lower() on the values DB_TYPE takes.
Lower(x) == IF x = "MySQL" THEN "mysql" ELSE x

\* str(int) and int(str) on the values MYSQL_PORT takes; int() raises
\* ValueError on a string that is not a number.
StrOfInt(n) == CASE n = DEFAULT_MYSQL_PORT -> "3306" [] n = 3307 -> "3307"
                    [] OTHER -> "0"
IsNumeral(x) == x \in {"0", "3306", "3307"}
IntOfStr(x) == CASE x = "3306" -> DEFAULT_MYSQL_PORT [] x = "3307" -> 3307
                 [] OTHER -> 0

\* cls(db_type=db_type): every optional field None.
DatabaseConfig(kind) ==
    [db_type |-> kind, sqlite_path |-> NoneStr, mysql_host |-> NoneStr,
     mysql_port |-> None, mysql_user |-> NoneStr, mysql_password |-> NoneStr,
     mysql_database |-> NoneStr, firestore_project_id |-> NoneStr,
     firestore_credentials_path |-> NoneStr]

NoConfig == DatabaseConfig(NoneStr)

\* from_env with a mysql branch that asks for MYSQL_PASSWORD instead of
\* defaulting it.
FromEnvPasswordRequired(environ) ==
    LET kind == Lower(Getenv(environ, "DB_TYPE", SQLITE))
        cfg == DatabaseConfig(kind)
        port == Getenv(environ, "MYSQL_PORT", StrOfInt(DEFAULT_MYSQL_PORT))
    IN CASE kind = SQLITE ->
              Constructed([cfg EXCEPT !.sqlite_path =
                              Getenv(environ, "SQLITE_DB_PATH", DEFAULT_SQLITE_PATH)])
         [] kind = MYSQL ->
              IF environ.MYSQL_PASSWORD = Unset
              THEN Refused(NoConfig, "ValueError: MYSQL_PASSWORD must be provided")
              ELSE IF ~IsNumeral(port)
              THEN Refused(NoConfig, "ValueError: invalid literal for int()")
              ELSE Constructed([cfg EXCEPT
                      !.mysql_host = Getenv(environ, "MYSQL_HOST", DEFAULT_MYSQL_HOST),
                      !.mysql_port = IntOfStr(port),
                      !.mysql_user = Getenv(environ, "MYSQL_USER", DEFAULT_MYSQL_USER),
                      !.mysql_password =
                          Getenv(environ, "MYSQL_PASSWORD", DEFAULT_MYSQL_PASSWORD),
                      !.mysql_database =
                          Getenv(environ, "MYSQL_DATABASE", DEFAULT_MYSQL_DATABASE)])
         [] kind = FIRESTORE ->
              Constructed([cfg EXCEPT
                  !.firestore_project_id = Getenv(environ, "FIRESTORE_PROJECT_ID", NoneStr),
                  !.firestore_credentials_path =
                      Getenv(environ, "FIRESTORE_CREDENTIALS_PATH", NoneStr)])
         [] OTHER -> Constructed(cfg)

\* DatabaseConfig.from_env()
FromEnv(environ) ==
    LET kind == Lower(Getenv(environ, "DB_TYPE", SQLITE))
        cfg == DatabaseConfig(kind)
        port == Getenv(environ, "MYSQL_PORT", StrOfInt(DEFAULT_MYSQL_PORT))
    IN CASE kind = SQLITE ->
              Constructed([cfg EXCEPT !.sqlite_path =
                              Getenv(environ, "SQLITE_DB_PATH", DEFAULT_SQLITE_PATH)])
         [] kind = MYSQL ->
              IF ~IsNumeral(port)
              THEN Refused(NoConfig, "ValueError: invalid literal for int()")
              ELSE Constructed([cfg EXCEPT
                      !.mysql_host = Getenv(environ, "MYSQL_HOST", DEFAULT_MYSQL_HOST),
                      !.mysql_port = IntOfStr(port),
                      !.mysql_user = Getenv(environ, "MYSQL_USER", DEFAULT_MYSQL_USER),
                      !.mysql_password =
                          Getenv(environ, "MYSQL_PASSWORD", DEFAULT_MYSQL_PASSWORD),
                      !.mysql_database =
                          Getenv(environ, "MYSQL_DATABASE", DEFAULT_MYSQL_DATABASE)])
         [] kind = FIRESTORE ->
              Constructed([cfg EXCEPT
                  !.firestore_project_id = Getenv(environ, "FIRESTORE_PROJECT_ID", NoneStr),
                  !.firestore_credentials_path =
                      Getenv(environ, "FIRESTORE_CREDENTIALS_PATH", NoneStr)])
         [] OTHER -> Constructed(cfg)

\* DatabaseConfig.get_connection_params(): the parameters of the selected
\* backend (the names of the fields it returns), or the ValueError.
GetConnectionParams(cfg) ==
    CASE cfg.db_type = SQLITE -> Constructed([db_path |-> cfg.sqlite_path])
      [] cfg.db_type = MYSQL ->
            Constructed([host |-> cfg.mysql_host, port |-> cfg.mysql_port,
                         user |-> cfg.mysql_user, password |-> cfg.mysql_password,
                         database |-> cfg.mysql_database])
      [] cfg.db_type = FIRESTORE ->
            Constructed([project_id |-> cfg.firestore_project_id,
                         credentials_path |-> cfg.firestore_credentials_path])
      [] OTHER -> Refused(<<>>, "ValueError: Unsupported database type")

\* The backend kinds a DatabaseConfig can carry: the three supported ones and
\* two that are not.
Kinds == Backends \cup {"postgres", ""}

\* DatabaseConfig instances: db_type and the optional fields of each backend.
Configs ==
    [db_type : Kinds,
     sqlite_path : {NoneStr, "items.db"},
     mysql_host : {NoneStr, "db"},
     mysql_port : {None, 3307},
     mysql_user : {NoneStr},
     mysql_password : {NoneStr, "", "secret"},
     mysql_database : {NoneStr},
     firestore_project_id : {NoneStr, "proj"},
     firestore_credentials_path : {NoneStr, "cred.json"}]

\* The environments the application runs with: one per supported backend,
\* nothing else set but the project id firestore cannot do without.
RunEnvs ==
    {e \in Envs :
        /\ e.DB_TYPE \in Backends
        /\ e.SQLITE_DB_PATH = Unset /\ e.MYSQL_HOST = Unset /\ e.MYSQL_PORT = Unset
        /\ e.MYSQL_PASSWORD = Unset
        /\ e.FIRESTORE_PROJECT_ID = "proj" /\ e.FIRESTORE_CREDENTIALS_PATH = Unset}

\* The configurations the application runs with.
RunConfigs == {FromEnv(e).obj : e \in RunEnvs}

\* Python's "x or default" on an Optional[str] and on an Optional[int].
OrStr(x, default) == IF x \in {NoneStr, ""} THEN default ELSE x
OrInt(x, default) == IF x = None THEN default ELSE x

\* --------------------------------------------------------------- factories
\* A Connection object as its constructor leaves it: the arguments it was
\* given and no native handle.
NoConnection ==
    [kind |-> "none", db_path |-> NoneStr, host |-> NoneStr, port |-> None,
     user |-> NoneStr, password |-> NoneStr, database |-> NoneStr,
     project_id |-> NoneStr, credentials_path |-> NoneStr, handle |-> None]

SQLiteConnection(db_path) ==
    [NoConnection EXCEPT !.kind = SQLITE, !.db_path = db_path]

MySQLConnection(host, port, user, password, database) ==
    [NoConnection EXCEPT !.kind = MYSQL, !.host = host, !.port = port,
                         !.user = user, !.password = password,
                         !.database = database]

FirestoreConnection(project_id, credentials_path) ==
    [NoConnection EXCEPT !.kind = FIRESTORE, !.project_id = project_id,
                         !.credentials_path = credentials_path]

\* get_connection_info with a mysql branch that reports every constructor
\* argument.
GetConnectionInfoAllArguments(conn) ==
    CASE conn.kind = SQLITE -> [type |-> "sqlite", db_path |-> conn.db_path]
      [] conn.kind = MYSQL ->
            [type |-> "mysql", host |-> conn.host, port |-> conn.port,
             user |-> conn.user, password |-> conn.password,
             database |-> conn.database]
      [] OTHER ->
            [type |-> "firestore", project_id |-> conn.project_id,
             credentials_path |-> conn.credentials_path]

\* Connection.get_connection_info() of the three Connection classes.
GetConnectionInfo(conn) ==
    CASE conn.kind = SQLITE -> [type |-> "sqlite", db_path |-> conn.db_path]
      [] conn.kind = MYSQL ->
            [type |-> "mysql", host |-> conn.host, port |-> conn.port,
             user |-> conn.user, database |-> conn.database]
      [] OTHER ->
            [type |-> "firestore", project_id |-> conn.project_id,
             credentials_path |-> conn.credentials_path]

\* create_connection without the project-id check of its firestore branch.
CreateConnectionUnchecked(cfg) ==
    CASE cfg.db_type = SQLITE ->
            Constructed(SQLiteConnection(OrStr(cfg.sqlite_path, DEFAULT_SQLITE_PATH)))
      [] cfg.db_type = MYSQL ->
            Constructed(MySQLConnection(
                OrStr(cfg.mysql_host, DEFAULT_MYSQL_HOST),
                OrInt(cfg.mysql_port, DEFAULT_MYSQL_PORT),
                OrStr(cfg.mysql_user, DEFAULT_MYSQL_USER),
                IF cfg.mysql_password # NoneStr THEN cfg.mysql_password
                ELSE DEFAULT_MYSQL_PASSWORD,
                OrStr(cfg.mysql_database, DEFAULT_MYSQL_DATABASE)))
      [] cfg.db_type = FIRESTORE ->
            Constructed(FirestoreConnection(cfg.firestore_project_id,
                                            cfg.firestore_credentials_path))
      [] OTHER -> Refused(NoConnection, "ValueError: Unsupported database type")

\* DatabaseFactory.create_connection(config).
CreateConnection(cfg) ==
    CASE cfg.db_type = SQLITE ->
            Constructed(SQLiteConnection(OrStr(cfg.sqlite_path, DEFAULT_SQLITE_PATH)))
      [] cfg.db_type = MYSQL ->
            Constructed(MySQLConnection(
                OrStr(cfg.mysql_host, DEFAULT_MYSQL_HOST),
                OrInt(cfg.mysql_port, DEFAULT_MYSQL_PORT),
                OrStr(cfg.mysql_user, DEFAULT_MYSQL_USER),
                IF cfg.mysql_password # NoneStr THEN cfg.mysql_password
                ELSE DEFAULT_MYSQL_PASSWORD,
                OrStr(cfg.mysql_database, DEFAULT_MYSQL_DATABASE)))
      [] cfg.db_type = FIRESTORE ->
            IF cfg.firestore_project_id \in {NoneStr, ""}
            THEN Refused(NoConnection, "ValueError: Firestore project ID must be provided")
            ELSE Constructed(FirestoreConnection(cfg.firestore_project_id,
                                                 cfg.firestore_credentials_path))
      [] OTHER -> Refused(NoConnection, "ValueError: Unsupported database type")

\* A Transaction Manager as TransactionManager.__init__ leaves it.
NoManager ==
    [kind |-> "none", connection |-> NoConnection, connection_obj |-> None,
     transaction_active |-> FALSE]

TransactionManager(kind, connection) ==
    [kind |-> kind, connection |-> connection, connection_obj |-> None,
     transaction_active |-> FALSE]

\* create_manager with a constructor that connects: the manager comes back
\* holding a native handle.
CreateManagerEager(connection, cfg) ==
    IF cfg.db_type \in Backends
    THEN [ok |-> TRUE,
          obj |-> [TransactionManager(cfg.db_type, connection)
                      EXCEPT !.connection_obj = 1],
          err |-> "", nat |-> <<"connect">>]
    ELSE Refused(NoManager, "ValueError: Unsupported database type")

\* create_manager with a final `else:` that builds the firestore manager
\* instead of raising.
CreateManagerDefaultsFirestore(connection, cfg) ==
    CASE cfg.db_type = SQLITE -> Constructed(TransactionManager(SQLITE, connection))
      [] cfg.db_type = MYSQL -> Constructed(TransactionManager(MYSQL, connection))
      [] OTHER -> Constructed(TransactionManager(FIRESTORE, connection))

\* TransactionManagerFactory.create_manager(connection, config).
CreateManager(connection, cfg) ==
    CASE cfg.db_type = SQLITE -> Constructed(TransactionManager(SQLITE, connection))
      [] cfg.db_type = MYSQL -> Constructed(TransactionManager(MYSQL, connection))
      [] cfg.db_type = FIRESTORE -> Constructed(TransactionManager(FIRESTORE, connection))
      [] OTHER -> Refused(NoManager, "ValueError: Unsupported database type")

\* built: what from_env, create_connection and create_manager returned, once
\* called.
NotCalled == [called |-> FALSE, ok |-> FALSE, err |-> "", nat |-> <<>>]
NoBuilt ==
    [config |-> NotCalled @@ [obj |-> NoConfig],
     connection |-> NotCalled @@ [obj |-> NoConnection],
     manager |-> NotCalled @@ [obj |-> NoManager]]

\* --------------------------------------------------------------- Connection
\* SQLiteConnection.connect: opens a handle only when it holds none.
SQLiteConnect(s, fault) ==
    IF s.connHandle = None
    THEN IF fault = "connect" THEN Raised(s, "connect", <<"connect">>)
         ELSE LET t == NativeOpen(s)
              IN Returned([t EXCEPT !.connHandle = t.nextHandle], t.nextHandle,
                          <<"connect">>)
    ELSE Returned(s, s.connHandle, <<>>)

\* MySQLConnection.connect: opens a handle on every call.
MySQLConnect(s, fault) ==
    IF fault = "connect" THEN Raised(s, "connect", <<"connect">>)
    ELSE LET t == NativeOpen(s)
         IN Returned([t EXCEPT !.connHandle = t.nextHandle], t.nextHandle,
                     <<"connect">>)

\* FirestoreConnection.connect: builds a client on every call.
FirestoreConnect(s, fault) ==
    IF fault = "connect" THEN Raised(s, "connect", <<"connect">>)
    ELSE LET t == NativeOpen(s)
         IN Returned([t EXCEPT !.connHandle = t.nextHandle], t.nextHandle,
                     <<"connect">>)

Connect(s, fault) ==
    CASE s.db_type = SQLITE -> SQLiteConnect(s, fault)
      [] s.db_type = MYSQL -> MySQLConnect(s, fault)
      [] OTHER -> FirestoreConnect(s, fault)

\* disconnect() without the final "self._connection = None": the closed
\* handle stays in the Connection.
SQLiteDisconnectKeepsHandle(s) ==
    IF s.connHandle # None
    THEN Returned(NativeClose(s, s.connHandle), <<>>, <<"close">>)
    ELSE Returned(s, <<>>, <<>>)

\* SQLiteConnection.disconnect / MySQLConnection.disconnect: close the handle
\* held, wait for the close, and hold none.
SQLiteDisconnect(s) ==
    IF s.connHandle # None
    THEN Returned([NativeClose(s, s.connHandle) EXCEPT !.connHandle = None], <<>>,
                  <<"close">>)
    ELSE Returned(s, <<>>, <<>>)

MySQLDisconnect(s) ==
    IF s.connHandle # None
    THEN Returned([NativeClose(s, s.connHandle) EXCEPT !.connHandle = None], <<>>,
                  <<"close">>)
    ELSE Returned(s, <<>>, <<>>)

\* FirestoreConnection.disconnect: drops the client reference.
FirestoreDisconnect(s) == Returned([s EXCEPT !.connHandle = None], <<>>, <<>>)

Disconnect(s) ==
    CASE s.db_type = SQLITE -> SQLiteDisconnect(s)
      [] s.db_type = MYSQL -> MySQLDisconnect(s)
      [] OTHER -> FirestoreDisconnect(s)

\* Whether connect() would open a native handle in state s.
OpensHandle(s) == s.db_type # SQLITE \/ s.connHandle = None

\* ------------------------------------------------------ Transaction Manager
\* "if not self._connection_obj: self._connection_obj = await connect()".
\* A variant of the lazy connect that asks the Connection on every call.
LazyConnectEveryCall(s, m, fault) ==
    LET c == Connect(s, fault)
    IN IF c.ok THEN Returned([c.s EXCEPT !.mgrConn[m] = c.ret], c.ret, c.nat)
       ELSE c

LazyConnect(s, m, fault) ==
    IF s.mgrConn[m] = None
    THEN LET c == Connect(s, fault)
         IN IF c.ok THEN Returned([c.s EXCEPT !.mgrConn[m] = c.ret], c.ret, c.nat)
            ELSE c
    ELSE Returned(s, s.mgrConn[m], <<>>)

\* A native call on handle h raises when the driver fails or h is closed.
NativeFails(s, h, fault, call) == fault = call \/ ~s.hOpen[h]

SQLiteBegin(s, m, fault) ==
    LET c == LazyConnect(s, m, fault)
    IN IF ~c.ok THEN c
       ELSE Returned([c.s EXCEPT !.active[m] = TRUE], <<>>, c.nat)

\* Variants of commit(): one that leaves the flag set, one that only clears it.
SQLiteCommitKeepsActive(s, m, fault) ==
    IF s.mgrConn[m] # None /\ s.active[m]
    THEN IF NativeFails(s, s.mgrConn[m], fault, "commit")
         THEN Raised(s, "commit", <<"commit">>)
         ELSE Returned(NativeCommit(s, s.mgrConn[m]), <<>>, <<"commit">>)
    ELSE Returned(s, <<>>, <<>>)

SQLiteCommitFlagOnly(s, m, fault) ==
    IF s.mgrConn[m] # None /\ s.active[m]
    THEN Returned([s EXCEPT !.active[m] = FALSE], <<>>, <<>>)
    ELSE Returned(s, <<>>, <<>>)

\* A variant of commit() that clears the flag before the native commit.
SQLiteCommitClearsFirst(s, m, fault) ==
    IF s.mgrConn[m] # None /\ s.active[m]
    THEN IF NativeFails(s, s.mgrConn[m], fault, "commit")
         THEN Raised([s EXCEPT !.active[m] = FALSE], "commit", <<"commit">>)
         ELSE Returned([NativeCommit(s, s.mgrConn[m]) EXCEPT !.active[m] = FALSE],
                       <<>>, <<"commit">>)
    ELSE Returned(s, <<>>, <<>>)

SQLiteCommit(s, m, fault) ==
    IF s.mgrConn[m] # None /\ s.active[m]
    THEN IF NativeFails(s, s.mgrConn[m], fault, "commit")
         THEN Raised(s, "commit", <<"commit">>)
         ELSE Returned([NativeCommit(s, s.mgrConn[m]) EXCEPT !.active[m] = FALSE],
                       <<>>, <<"commit">>)
    ELSE Returned(s, <<>>, <<>>)

\* Variants of rollback(): one that only clears the flag, one that does not
\* look at the flag.
SQLiteRollbackFlagOnly(s, m, fault) ==
    IF s.mgrConn[m] # None /\ s.active[m]
    THEN Returned([s EXCEPT !.active[m] = FALSE], <<>>, <<>>)
    ELSE Returned(s, <<>>, <<>>)

SQLiteRollbackUnguarded(s, m, fault) ==
    IF s.mgrConn[m] # None
    THEN IF NativeFails(s, s.mgrConn[m], fault, "rollback")
         THEN Raised(s, "rollback", <<"rollback">>)
         ELSE Returned([NativeRollback(s, s.mgrConn[m]) EXCEPT !.active[m] = FALSE],
                       <<>>, <<"rollback">>)
    ELSE Returned(s, <<>>, <<>>)

SQLiteRollback(s, m, fault) ==
    IF s.mgrConn[m] # None /\ s.active[m]
    THEN IF NativeFails(s, s.mgrConn[m], fault, "rollback")
         THEN Raised(s, "rollback", <<"rollback">>)
         ELSE Returned([NativeRollback(s, s.mgrConn[m]) EXCEPT !.active[m] = FALSE],
                       <<>>, <<"rollback">>)
    ELSE Returned(s, <<>>, <<>>)

\* sql.strip().upper().startswith("SELECT")
StartsWithSelect(stmt) == stmt.head = "SELECT"

\* A variant of execute() that never commits on its own.
SQLiteExecuteNoAutocommit(s, m, stmt, fault) ==
    LET c == LazyConnect(s, m, fault)
        h == c.ret
    IN IF ~c.ok THEN c
       ELSE IF NativeFails(c.s, h, fault, "execute")
       THEN Raised(c.s, "execute", c.nat \o <<"execute">>)
       ELSE LET t        == NativeExecute(c.s, h, stmt)
                rowcount == RowCount(c.s, View(c.s, h), stmt)
            IN IF StartsWithSelect(stmt)
               THEN Returned(t, FetchAll(View(t, h), stmt), c.nat \o <<"execute">>)
               ELSE Returned(t, <<[affected_rows |-> rowcount]>>,
                             c.nat \o <<"execute">>)

\* A variant of execute() whose marker reports one row whatever the cursor
\* counted.
SQLiteExecuteCountsOne(s, m, stmt, fault) ==
    LET c == LazyConnect(s, m, fault)
        h == c.ret
    IN IF ~c.ok THEN c
       ELSE IF NativeFails(c.s, h, fault, "execute")
       THEN Raised(c.s, "execute", c.nat \o <<"execute">>)
       ELSE LET t        == NativeExecute(c.s, h, stmt)
                rowcount == 1
            IN IF StartsWithSelect(stmt)
               THEN Returned(t, FetchAll(View(t, h), stmt), c.nat \o <<"execute">>)
               ELSE IF ~t.active[m]
                    THEN IF NativeFails(t, h, fault, "commit")
                         THEN Raised(t, "commit", c.nat \o <<"execute", "commit">>)
                         ELSE Returned(NativeCommit(t, h),
                                       <<[affected_rows |-> rowcount]>>,
                                       c.nat \o <<"execute", "commit">>)
                    ELSE Returned(t, <<[affected_rows |-> rowcount]>>,
                                  c.nat \o <<"execute">>)

\* A variant of execute() whose SELECT reads the committed table only.
SQLiteExecuteReadsCommitted(s, m, stmt, fault) ==
    LET c == LazyConnect(s, m, fault)
        h == c.ret
    IN IF ~c.ok THEN c
       ELSE IF NativeFails(c.s, h, fault, "execute")
       THEN Raised(c.s, "execute", c.nat \o <<"execute">>)
       ELSE LET t        == NativeExecute(c.s, h, stmt)
                rowcount == RowCount(c.s, View(c.s, h), stmt)
            IN IF StartsWithSelect(stmt)
               THEN Returned(t, FetchAll(t.durable, stmt), c.nat \o <<"execute">>)
               ELSE IF ~t.active[m]
                    THEN IF NativeFails(t, h, fault, "commit")
                         THEN Raised(t, "commit", c.nat \o <<"execute", "commit">>)
                         ELSE Returned(NativeCommit(t, h),
                                       <<[affected_rows |-> rowcount]>>,
                                       c.nat \o <<"execute", "commit">>)
                    ELSE Returned(t, <<[affected_rows |-> rowcount]>>,
                                  c.nat \o <<"execute">>)

\* execute(): run the statement, then fetch the rows of a SELECT, or commit
\* when no transaction is active and return the affected-rows marker.
SQLiteExecute(s, m, stmt, fault) ==
    LET c == LazyConnect(s, m, fault)
        h == c.ret
    IN IF ~c.ok THEN c
       ELSE IF NativeFails(c.s, h, fault, "execute")
       THEN Raised(c.s, "execute", c.nat \o <<"execute">>)
       ELSE LET t        == NativeExecute(c.s, h, stmt)
                rowcount == RowCount(c.s, View(c.s, h), stmt)
            IN IF StartsWithSelect(stmt)
               THEN Returned(t, FetchAll(View(t, h), stmt), c.nat \o <<"execute">>)
               ELSE IF ~t.active[m]
                    THEN IF NativeFails(t, h, fault, "commit")
                         THEN Raised(t, "commit", c.nat \o <<"execute", "commit">>)
                         ELSE Returned(NativeCommit(t, h),
                                       <<[affected_rows |-> rowcount]>>,
                                       c.nat \o <<"execute", "commit">>)
                    ELSE Returned(t, <<[affected_rows |-> rowcount]>>,
                                  c.nat \o <<"execute">>)

\* A variant of begin() that sets the flag before the native BEGIN.
MySQLBeginFlagFirst(s, m, fault) ==
    LET c == LazyConnect(s, m, fault)
    IN IF ~c.ok THEN c
       ELSE IF NativeFails(c.s, c.ret, fault, "begin")
            THEN Raised([c.s EXCEPT !.active[m] = TRUE], "begin", c.nat \o <<"begin">>)
            ELSE Returned([NativeBegin(c.s, c.ret) EXCEPT !.active[m] = TRUE],
                          <<>>, c.nat \o <<"begin">>)

MySQLBegin(s, m, fault) ==
    LET c == LazyConnect(s, m, fault)
    IN IF ~c.ok THEN c
       ELSE IF NativeFails(c.s, c.ret, fault, "begin")
            THEN Raised(c.s, "begin", c.nat \o <<"begin">>)
            ELSE Returned([NativeBegin(c.s, c.ret) EXCEPT !.active[m] = TRUE],
                          <<>>, c.nat \o <<"begin">>)

MySQLCommit(s, m, fault) ==
    IF s.mgrConn[m] # None /\ s.active[m]
    THEN IF NativeFails(s, s.mgrConn[m], fault, "commit")
         THEN Raised(s, "commit", <<"commit">>)
         ELSE Returned([NativeCommit(s, s.mgrConn[m]) EXCEPT !.active[m] = FALSE],
                       <<>>, <<"commit">>)
    ELSE Returned(s, <<>>, <<>>)

MySQLRollback(s, m, fault) ==
    IF s.mgrConn[m] # None /\ s.active[m]
    THEN IF NativeFails(s, s.mgrConn[m], fault, "rollback")
         THEN Raised(s, "rollback", <<"rollback">>)
         ELSE Returned([NativeRollback(s, s.mgrConn[m]) EXCEPT !.active[m] = FALSE],
                       <<>>, <<"rollback">>)
    ELSE Returned(s, <<>>, <<>>)

\* A variant of execute() that ends the transaction when the statement fails.
MySQLExecuteEndsOnError(s, m, stmt, fault) ==
    LET c == LazyConnect(s, m, fault)
        h == c.ret
    IN IF ~c.ok THEN c
       ELSE IF NativeFails(c.s, h, fault, "execute")
       THEN Raised([c.s EXCEPT !.active[m] = FALSE], "execute", c.nat \o <<"execute">>)
       ELSE LET t        == NativeExecute(c.s, h, stmt)
                rowcount == RowCount(c.s, View(c.s, h), stmt)
            IN IF StartsWithSelect(stmt)
               THEN Returned(t, FetchAll(View(t, h), stmt), c.nat \o <<"execute">>)
               ELSE IF ~t.active[m]
                    THEN IF NativeFails(t, h, fault, "commit")
                         THEN Raised(t, "commit", c.nat \o <<"execute", "commit">>)
                         ELSE Returned(NativeCommit(t, h),
                                       <<[affected_rows |-> rowcount]>>,
                                       c.nat \o <<"execute", "commit">>)
                    ELSE Returned(t, <<[affected_rows |-> rowcount]>>,
                                  c.nat \o <<"execute">>)

MySQLExecute(s, m, stmt, fault) ==
    LET c == LazyConnect(s, m, fault)
        h == c.ret
    IN IF ~c.ok THEN c
       ELSE IF NativeFails(c.s, h, fault, "execute")
       THEN Raised(c.s, "execute", c.nat \o <<"execute">>)
       ELSE LET t        == NativeExecute(c.s, h, stmt)
                rowcount == RowCount(c.s, View(c.s, h), stmt)
            IN IF StartsWithSelect(stmt)
               THEN Returned(t, FetchAll(View(t, h), stmt), c.nat \o <<"execute">>)
               ELSE IF ~t.active[m]
                    THEN IF NativeFails(t, h, fault, "commit")
                         THEN Raised(t, "commit", c.nat \o <<"execute", "commit">>)
                         ELSE Returned(NativeCommit(t, h),
                                       <<[affected_rows |-> rowcount]>>,
                                       c.nat \o <<"execute", "commit">>)
                    ELSE Returned(t, <<[affected_rows |-> rowcount]>>,
                                  c.nat \o <<"execute">>)

FirestoreBegin(s, m, fault) ==
    LET c == LazyConnect(s, m, fault)
    IN IF ~c.ok THEN c
       ELSE Returned([c.s EXCEPT !.active[m] = TRUE], <<>>, c.nat)

FirestoreCommit(s, m, fault) ==
    IF s.mgrConn[m] # None /\ s.active[m]
    THEN Returned([s EXCEPT !.active[m] = FALSE], <<>>, <<>>)
    ELSE Returned(s, <<>>, <<>>)

\* A variant of rollback() that asks the client to roll back.
FirestoreRollbackNative(s, m, fault) ==
    IF s.mgrConn[m] # None /\ s.active[m]
    THEN Returned([NativeRollback(s, s.mgrConn[m]) EXCEPT !.active[m] = FALSE],
                  <<>>, <<"rollback">>)
    ELSE Returned(s, <<>>, <<>>)

FirestoreRollback(s, m, fault) ==
    IF s.mgrConn[m] # None /\ s.active[m]
    THEN Returned([s EXCEPT !.active[m] = FALSE], <<>>, <<>>)
    ELSE Returned(s, <<>>, <<>>)

\* A variant of execute() that returns no row instead of raising.
FirestoreExecuteSilent(s, m, stmt, fault) == Returned(s, <<>>, <<>>)

\* raise NotImplementedError("... Attempted SQL: {sql}")
FirestoreExecute(s, m, stmt, fault) == RaisedFor(s, "NotImplementedError", stmt)

\* TransactionManager.is_transaction_active
IsTransactionActive(s, m) == s.active[m]

\* The manager class TransactionManagerFactory.create_manager built for db_type.
TMBegin(s, m, fault) ==
    CASE s.db_type = SQLITE -> SQLiteBegin(s, m, fault)
      [] s.db_type = MYSQL -> MySQLBegin(s, m, fault)
      [] OTHER -> FirestoreBegin(s, m, fault)

TMCommit(s, m, fault) ==
    CASE s.db_type = SQLITE -> SQLiteCommit(s, m, fault)
      [] s.db_type = MYSQL -> MySQLCommit(s, m, fault)
      [] OTHER -> FirestoreCommit(s, m, fault)

TMRollback(s, m, fault) ==
    CASE s.db_type = SQLITE -> SQLiteRollback(s, m, fault)
      [] s.db_type = MYSQL -> MySQLRollback(s, m, fault)
      [] OTHER -> FirestoreRollback(s, m, fault)

TMExecute(s, m, stmt, fault) ==
    CASE s.db_type = SQLITE -> SQLiteExecute(s, m, stmt, fault)
      [] s.db_type = MYSQL -> MySQLExecute(s, m, stmt, fault)
      [] OTHER -> FirestoreExecute(s, m, stmt, fault)

\* ------------------------------------------------------------------ history
\* tx[m] records what the calls on manager m did since its transaction began,
\* and is kept until the call that follows the one that ended it:
\*   begun   a begin() returned and no commit()/rollback() has returned since
\*   track   the transaction began from Idle and no call on another manager or
\*           on the Connection was made since
\*   plain   every call on m since that begin() was an execute() of a mutating
\*           statement that returned
\*   before  the durable table when that begin() was called
\*   atBegin the durable table when that begin() returned
\*   empty   a SELECT through m showed no row at that moment
\*   log     the mutating statements executed through m since, in order
\*   ended   the call that ended it: "commit", "rollback", or "" while it is open
NoTx == [begun |-> FALSE, track |-> FALSE, plain |-> FALSE, before |-> EmptyTable,
         atBegin |-> EmptyTable, empty |-> FALSE, log |-> <<>>, ended |-> ""]

\* last is the last call made: its arguments, its outcome (ok: it returned,
\* ret: what it returned, err and sql: what it raised, nat: the native calls it
\* made) and whether the manager was Active when it was made.
NoCall == [op |-> "none", m |-> None, ok |-> TRUE, err |-> "", sql |-> NoStmt,
           ret |-> <<>>, nat |-> <<>>, stmt |-> NoStmt, preActive |-> FALSE]

\* The table a SELECT through manager m shows (the durable one before it connects).
ManagerView(s, m) ==
    IF s.mgrConn[m] # None THEN View(s, s.mgrConn[m]) ELSE s.durable

Call(op, m, stmt, r) ==
    [op |-> op, m |-> m, ok |-> r.ok, err |-> r.err, sql |-> r.sql,
     ret |-> r.ret, nat |-> r.nat, stmt |-> stmt,
     preActive |-> IF m = None THEN FALSE ELSE active[m]]

Untracked(t) == [NoTx EXCEPT !.begun = t.begun]

\* The history of m after a call on m, from the history t it had.
TxOfCall(t, op, m, stmt, r) ==
    CASE op = "begin" /\ r.ok /\ ~active[m] ->
            [begun |-> TRUE, track |-> TRUE, plain |-> TRUE,
             before |-> durable, atBegin |-> r.s.durable, empty |-> ManagerView(r.s, m) = EmptyTable,
             log |-> <<>>, ended |-> ""]
      [] op = "begin" /\ r.ok /\ active[m] ->
            [t EXCEPT !.begun = TRUE, !.plain = FALSE]
      [] op \in {"commit", "rollback"} /\ r.ok ->
            IF active[m] /\ t.track THEN [t EXCEPT !.begun = FALSE, !.ended = op]
            ELSE NoTx
      [] op = "execute" /\ r.ok /\ IsMutating(stmt) /\ t.track ->
            LET p == r.s.pending[r.s.mgrConn[m]]
            IN IF Len(t.log) < MaxPending /\ p # <<>>
               THEN [t EXCEPT !.log = Append(@, p[Len(p)])]
               ELSE Untracked(t)
      [] OTHER -> IF t.track THEN [t EXCEPT !.plain = FALSE] ELSE t

Record(op, m, stmt, r) ==
    /\ last' = Call(op, m, stmt, r)
    /\ tx' = [k \in Managers |->
                IF k = m
                THEN TxOfCall(IF tx[m].ended # "" THEN NoTx ELSE tx[m], op, m, stmt, r)
                ELSE Untracked(tx[k])]

\* ------------------------------------------------------------ ItemDatastore
\* The operations of ItemUsecase with the arguments a request gives them.
Operation(name, id, item) == [name |-> name, id |-> id, item |-> item]
Operations ==
    {Operation("get_items", None, NoItem), Operation("get_item", 1, NoItem),
     Operation("create_item", None, Widget), Operation("update_item", 1, Gadget),
     Operation("delete_item", 1, NoItem)}
NoOperation == Operation("none", None, NoItem)

\* The statement each ItemDatastore method passes to connection.execute().
DatastoreStmt(opr) ==
    CASE opr.name = "get_items" -> SelectAllStmt
      [] opr.name = "get_item" -> SelectOneStmt(opr.id)
      [] opr.name = "create_item" -> InsertStmt(opr.item)
      [] opr.name = "update_item" -> UpdateStmt(opr.id, opr.item)
      [] OTHER -> DeleteStmt(opr.id)

\* What a method returns or raises: a list of ItemModel, one ItemModel or
\* None, or the exception err raised by the native call `err`.
Value(kind, rows) == [kind |-> kind, rows |-> rows]
NoneValue == Value("none", <<>>)
Outcome(ok, value, err) == [ok |-> ok, value |-> value, err |-> err]

\* Every method written like the reads: a raise of execute() is logged and
\* an empty result returned.
DatastoreOutcomeSwallowsAll(opr, x) ==
    CASE opr.name = "get_items" ->
            IF x.ok THEN Outcome(TRUE, Value("list", x.ret), "")
            ELSE Outcome(TRUE, Value("list", <<>>), "")
      [] opr.name = "get_item" ->
            IF x.ok /\ x.ret # <<>> THEN Outcome(TRUE, Value("item", <<x.ret[1]>>), "")
            ELSE Outcome(TRUE, NoneValue, "")
      [] OTHER -> Outcome(TRUE, NoneValue, "")

\* ItemDatastore.<method>, given the outcome x of its connection.execute():
\* the reads turn a raise into an empty result, the writes re-raise it.
DatastoreOutcome(opr, x) ==
    CASE opr.name = "get_items" ->
            IF x.ok THEN Outcome(TRUE, Value("list", x.ret), "")
            ELSE Outcome(TRUE, Value("list", <<>>), "")
      [] opr.name = "get_item" ->
            IF x.ok /\ x.ret # <<>> THEN Outcome(TRUE, Value("item", <<x.ret[1]>>), "")
            ELSE Outcome(TRUE, NoneValue, "")
      [] OTHER ->
            IF x.ok THEN Outcome(TRUE, NoneValue, "")
            ELSE Outcome(FALSE, NoneValue, x.err)

\* ----------------------------------------------------------- ItemInteractor
\* Container.transaction_manager is a Singleton: every ItemInteractor the
\* item_usecase Factory builds holds the same manager.
ContainerManager == 1

\* self.transaction_manager of the interactor serving request p.
InteractorManager(p) == ContainerManager

\* The manager an operation hands to its repository call (update_item takes it
\* from _get_transaction_manager()).
RepoManager(p, opr) == InteractorManager(p)

\* The try block written with `finally:` in place of `except Exception:`:
\* rollback() runs after a successful commit() as well.
InteractorNextFinally(at, ok) ==
    CASE at = "begin" -> IF ok THEN "repo" ELSE "rollback"
      [] at = "repo" -> IF ok THEN "commit" ELSE "rollback"
      [] at = "commit" -> "rollback"
      [] OTHER -> "raised"

\* Where an operation goes after the call at `at` returned (ok) or raised:
\* try: begin; repo; commit; return -- except Exception: rollback; raise.
InteractorNext(at, ok) ==
    CASE at = "begin" -> IF ok THEN "repo" ELSE "rollback"
      [] at = "repo" -> IF ok THEN "commit" ELSE "rollback"
      [] at = "commit" -> IF ok THEN "returned" ELSE "rollback"
      [] OTHER -> "raised"

\* What the operation returns once commit() returned: the repository's result
\* for the reads, None for the writes.
InteractorResult(opr, repoValue) ==
    IF opr.name \in {"get_items", "get_item"} THEN repoValue ELSE NoneValue

\* proc[p]: the operation, where it stands, the calls it made so far (call,
\* manager, ok), what the repository's execute() raised, the repository's
\* result, the exception being handled, and what the operation finally
\* returned or raised.
NoProc == [pc |-> "idle", opr |-> NoOperation, trail |-> <<>>, execErr |-> "",
           repoValue |-> NoneValue, exc |-> "", result |-> NoneValue, raised |-> ""]

Entry(call, m, ok) == [call |-> call, m |-> m, ok |-> ok]

\* ------------------------------------------------------------------ faults
\* The native call that raises in a call: none, or one of those it makes.
FaultChoices(natives) == {"none"} \cup (IF faults < MaxFaults THEN natives ELSE {})
CountFault(fault) == faults' = IF fault = "none" THEN faults ELSE faults + 1

ConnectNatives(m) ==
    IF mgrConn[m] = None /\ OpensHandle(Cur) THEN {"connect"} ELSE {}

\* The call may open a native handle only while the handle bound allows one.
HandleRoom(m) ==
    (mgrConn[m] = None /\ OpensHandle(Cur)) => nextHandle < MaxHandles

\* ------------------------------------------------------------------ actions
Init ==
    /\ env \in RunEnvs
    /\ config = FromEnv(env).obj
    /\ built = NoBuilt
    /\ db_type = config.db_type
    /\ connHandle = CreateConnection(config).obj.handle
    /\ nextHandle = 0
    /\ hOpen = [h \in Handles |-> FALSE]
    /\ pending = [h \in Handles |-> <<>>]
    /\ durable = EmptyTable
    /\ autoInc = 0
    /\ mgrConn = [m \in Managers |->
            CreateManager(CreateConnection(config).obj, config).obj.connection_obj]
    /\ active = [m \in Managers |->
            CreateManager(CreateConnection(config).obj, config).obj.transaction_active]
    /\ faults = 0
    /\ last = NoCall
    /\ tx = [m \in Managers |-> NoTx]
    /\ proc = [p \in Procs |-> NoProc]
    /\ started = 0

\* connection.connect() called by the owner of the Connection.
ConnConnect ==
    \E fault \in FaultChoices(IF OpensHandle(Cur) THEN {"connect"} ELSE {}) :
        LET r == Connect(Cur, fault)
        IN /\ OpensHandle(Cur) => nextHandle < MaxHandles
           /\ SetCur(r.s)
           /\ last' = Call("connect", None, NoStmt, r)
           /\ tx' = [k \in Managers |-> Untracked(tx[k])]
           /\ CountFault(fault)
           /\ UNCHANGED <<appVars, facVars>>

\* connection.disconnect() called by the owner of the Connection.
ConnDisconnect ==
    LET r == Disconnect(Cur)
    IN /\ SetCur(r.s)
       /\ last' = Call("disconnect", None, NoStmt, r)
       /\ tx' = [k \in Managers |-> Untracked(tx[k])]
       /\ UNCHANGED <<faults, appVars, facVars>>

Begin(m) ==
    \E fault \in FaultChoices(ConnectNatives(m)
                              \cup IF db_type = MYSQL THEN {"begin"} ELSE {}) :
        LET r == TMBegin(Cur, m, fault)
        IN /\ HandleRoom(m)
           /\ SetCur(r.s)
           /\ Record("begin", m, NoStmt, r)
           /\ CountFault(fault)
           /\ UNCHANGED <<appVars, facVars>>

EndNatives(m, call) ==
    IF mgrConn[m] # None /\ active[m] /\ db_type \in SqlBackends THEN {call} ELSE {}

Commit(m) ==
    \E fault \in FaultChoices(EndNatives(m, "commit")) :
        LET r == TMCommit(Cur, m, fault)
        IN /\ SetCur(r.s)
           /\ Record("commit", m, NoStmt, r)
           /\ CountFault(fault)
           /\ UNCHANGED <<appVars, facVars>>

Rollback(m) ==
    \E fault \in FaultChoices(EndNatives(m, "rollback")) :
        LET r == TMRollback(Cur, m, fault)
        IN /\ SetCur(r.s)
           /\ Record("rollback", m, NoStmt, r)
           /\ CountFault(fault)
           /\ UNCHANGED <<appVars, facVars>>

ExecuteNatives(m, stmt) ==
    IF db_type \in SqlBackends
    THEN ConnectNatives(m) \cup {"execute"}
         \cup IF ~StartsWithSelect(stmt) /\ ~active[m] THEN {"commit"} ELSE {}
    ELSE {}

\* The statement fits the bounds of the store: an identifier is left for an
\* insert, and the handle can hold one more uncommitted statement.
StoreRoom(m, stmt) ==
    LET h == IF mgrConn[m] # None THEN mgrConn[m]
             ELSE IF db_type = SQLITE THEN connHandle ELSE None
        table == IF h # None THEN View(Cur, h) ELSE durable
    IN db_type \in SqlBackends =>
        /\ stmt.kind = "insert" =>
              IF db_type = MYSQL THEN autoInc < MaxId ELSE MaxUsed(table) < MaxId
        /\ (IsMutating(stmt) /\ h # None) => Len(pending[h]) < MaxPending

Execute(m, stmt) ==
    \E fault \in FaultChoices(ExecuteNatives(m, stmt)) :
        LET r == TMExecute(Cur, m, stmt, fault)
        IN /\ db_type \in SqlBackends => HandleRoom(m)
           /\ StoreRoom(m, stmt)
           /\ SetCur(r.s)
           /\ Record("execute", m, stmt, r)
           /\ CountFault(fault)
           /\ UNCHANGED <<appVars, facVars>>

\* A request arrives: the router calls an operation of a new ItemInteractor.
Start(p, opr) ==
    /\ proc[p].pc \in {"idle", "returned", "raised"}
    /\ started < MaxOps
    /\ started' = started + 1
    /\ proc' = [proc EXCEPT ![p] = [NoProc EXCEPT !.pc = "begin", !.opr = opr]]
    /\ UNCHANGED <<db_type, connHandle, nextHandle, hOpen, pending, durable,
                   autoInc, mgrConn, active, faults, last, tx, facVars>>

\* await self.transaction_manager.begin()
StepBegin(p) ==
    LET m == InteractorManager(p)
    IN /\ proc[p].pc = "begin"
       /\ \E fault \in FaultChoices(ConnectNatives(m)
                                    \cup IF db_type = MYSQL THEN {"begin"} ELSE {}) :
            LET r == TMBegin(Cur, m, fault)
            IN /\ HandleRoom(m)
               /\ SetCur(r.s)
               /\ Record("begin", m, NoStmt, r)
               /\ CountFault(fault)
               /\ proc' = [proc EXCEPT
                     ![p].pc = InteractorNext("begin", r.ok),
                     ![p].trail = Append(@, Entry("begin", m, r.ok)),
                     ![p].exc = IF r.ok THEN "" ELSE r.err]
       /\ UNCHANGED <<started, facVars>>

\* await self.repo.<method>(..., transaction_manager)
StepRepo(p) ==
    LET opr  == proc[p].opr
        m    == RepoManager(p, opr)
        stmt == DatastoreStmt(opr)
    IN /\ proc[p].pc = "repo"
       /\ db_type \in SqlBackends => HandleRoom(m)
       /\ StoreRoom(m, stmt)
       /\ \E fault \in FaultChoices(ExecuteNatives(m, stmt)) :
          \E x \in {TMExecute(Cur, m, stmt, fault)} :
          \E d \in {DatastoreOutcome(opr, x)} :
               /\ SetCur(x.s)
               /\ Record("execute", m, stmt, x)
               /\ CountFault(fault)
               /\ proc' = [proc EXCEPT
                     ![p].pc = InteractorNext("repo", d.ok),
                     ![p].trail = Append(@, Entry("repo", m, d.ok)),
                     ![p].execErr = IF x.ok THEN "" ELSE x.err,
                     ![p].repoValue = d.value,
                     ![p].exc = IF d.ok THEN "" ELSE d.err]
       /\ UNCHANGED <<started, facVars>>

\* await self.transaction_manager.commit(); return
StepCommit(p) ==
    LET m == InteractorManager(p)
    IN /\ proc[p].pc = "commit"
       /\ \E fault \in FaultChoices(EndNatives(m, "commit")) :
            LET r == TMCommit(Cur, m, fault)
            IN /\ SetCur(r.s)
               /\ Record("commit", m, NoStmt, r)
               /\ CountFault(fault)
               /\ proc' = [proc EXCEPT
                     ![p].pc = InteractorNext("commit", r.ok),
                     ![p].trail = Append(@, Entry("commit", m, r.ok)),
                     ![p].result = IF r.ok
                                   THEN InteractorResult(proc[p].opr, proc[p].repoValue)
                                   ELSE @,
                     ![p].exc = IF r.ok THEN "" ELSE r.err]
       /\ UNCHANGED <<started, facVars>>

\* except Exception: await self.transaction_manager.rollback(); raise
StepRollback(p) ==
    LET m == InteractorManager(p)
    IN /\ proc[p].pc = "rollback"
       /\ \E fault \in FaultChoices(EndNatives(m, "rollback")) :
            LET r == TMRollback(Cur, m, fault)
            IN /\ SetCur(r.s)
               /\ Record("rollback", m, NoStmt, r)
               /\ CountFault(fault)
               /\ proc' = [proc EXCEPT
                     ![p].pc = InteractorNext("rollback", r.ok),
                     ![p].trail = Append(@, Entry("rollback", m, r.ok)),
                     ![p].raised = IF r.ok THEN proc[p].exc ELSE r.err]
       /\ UNCHANGED <<started, facVars>>

\* The application: requests served through the container's wiring.
AppNext ==
    \/ \E p \in Procs, opr \in Operations : Start(p, opr)
    \/ \E p \in Procs : StepBegin(p)
    \/ \E p \in Procs : StepRepo(p)
    \/ \E p \in Procs : StepCommit(p)
    \/ \E p \in Procs : StepRollback(p)

AppSpec == Init /\ [][AppNext]_vars

\* The factories applied to any DatabaseConfig a caller constructs, before
\* anything is used.
FactoryInit ==
    /\ env = NoEnv
    /\ config \in Configs
    /\ built = NoBuilt
    /\ db_type = config.db_type
    /\ connHandle = None
    /\ nextHandle = 0
    /\ hOpen = [h \in Handles |-> FALSE]
    /\ pending = [h \in Handles |-> <<>>]
    /\ durable = EmptyTable
    /\ autoInc = 0
    /\ mgrConn = [m \in Managers |-> None]
    /\ active = [m \in Managers |-> FALSE]
    /\ faults = 0
    /\ last = NoCall
    /\ tx = [m \in Managers |-> NoTx]
    /\ proc = [p \in Procs |-> NoProc]
    /\ started = 0

\* connection = DatabaseFactory.create_connection(config)
CreateConnectionStep ==
    LET r == CreateConnection(config)
    IN /\ ~built.connection.called
       /\ built' = [built EXCEPT !.connection =
                       [called |-> TRUE, ok |-> r.ok, err |-> r.err,
                        nat |-> r.nat, obj |-> r.obj]]
       /\ UNCHANGED <<db_type, connHandle, nextHandle, hOpen, pending, durable,
                      autoInc, mgrConn, active, faults, last, tx, proc, started,
                      config, env>>

\* TransactionManagerFactory.create_manager(connection, config), with the
\* connection create_connection returned if it was called and returned one.
CreateManagerStep ==
    LET r == CreateManager(built.connection.obj, config)
    IN /\ ~built.manager.called
       /\ built' = [built EXCEPT !.manager =
                       [called |-> TRUE, ok |-> r.ok, err |-> r.err,
                        nat |-> r.nat, obj |-> r.obj]]
       /\ UNCHANGED <<db_type, connHandle, nextHandle, hOpen, pending, durable,
                      autoInc, mgrConn, active, faults, last, tx, proc, started,
                      config, env>>

FactoryNext == CreateConnectionStep \/ CreateManagerStep

FactorySpec == FactoryInit /\ [][FactoryNext]_vars

\* The container's providers, from the environment on: database_config,
\* database_connection and transaction_manager are Singletons, each resolved
\* after the providers it depends on, and what they return is then used.
ConfigInit ==
    /\ env \in Envs
    /\ config = NoConfig
    /\ built = NoBuilt
    /\ db_type = NoConfig.db_type
    /\ connHandle = None
    /\ nextHandle = 0
    /\ hOpen = [h \in Handles |-> FALSE]
    /\ pending = [h \in Handles |-> <<>>]
    /\ durable = EmptyTable
    /\ autoInc = 0
    /\ mgrConn = [m \in Managers |-> None]
    /\ active = [m \in Managers |-> FALSE]
    /\ faults = MaxFaults
    /\ last = NoCall
    /\ tx = [m \in Managers |-> NoTx]
    /\ proc = [p \in Procs |-> NoProc]
    /\ started = 0

\* database_config = DatabaseConfig.from_env()
ProvideConfig ==
    /\ ~built.config.called
    /\ \E r \in {FromEnv(env)} :
          /\ built' = [built EXCEPT !.config =
                          [called |-> TRUE, ok |-> r.ok, err |-> r.err,
                           nat |-> r.nat, obj |-> r.obj]]
          /\ config' = r.obj
          /\ db_type' = r.obj.db_type
    /\ UNCHANGED <<connHandle, nextHandle, hOpen, pending, durable, autoInc,
                   mgrConn, active, faults, last, tx, proc, started, env>>

\* database_connection = DatabaseFactory.create_connection(database_config)
ProvideConnection ==
    /\ built.config.ok
    /\ CreateConnectionStep

\* transaction_manager = create_manager(database_connection, database_config)
ProvideManager ==
    /\ built.connection.ok
    /\ CreateManagerStep

ConfigNext ==
    \/ ProvideConfig
    \/ ProvideConnection
    \/ ProvideManager
    \/ built.connection.ok /\ ConnConnect
    \/ built.connection.ok /\ ConnDisconnect
    \/ built.manager.ok /\ Begin(1)
    \/ built.manager.ok /\ Rollback(1)
    \/ built.manager.ok /\ Execute(1, SelectAllStmt)

ConfigSpec == ConfigInit /\ [][ConfigNext]_vars

\* One Transaction Manager on its Connection, as a unit of work uses them.
Next ==
    \/ ConnConnect
    \/ ConnDisconnect
    \/ Begin(1)
    \/ Commit(1)
    \/ Rollback(1)
    \/ \E stmt \in Statements : Execute(1, stmt)

Spec == Init /\ [][Next]_vars

\* The same start with drivers whose calls never raise.
SharedInit ==
    /\ env \in RunEnvs
    /\ config = FromEnv(env).obj
    /\ built = NoBuilt
    /\ db_type = config.db_type
    /\ connHandle = CreateConnection(config).obj.handle
    /\ nextHandle = 0
    /\ hOpen = [h \in Handles |-> FALSE]
    /\ pending = [h \in Handles |-> <<>>]
    /\ durable = EmptyTable
    /\ autoInc = 0
    /\ mgrConn = [m \in Managers |->
            CreateManager(CreateConnection(config).obj, config).obj.connection_obj]
    /\ active = [m \in Managers |->
            CreateManager(CreateConnection(config).obj, config).obj.transaction_active]
    /\ faults = MaxFaults
    /\ last = NoCall
    /\ tx = [m \in Managers |-> NoTx]
    /\ proc = [p \in Procs |-> NoProc]
    /\ started = 0

\* Two Transaction Managers built on the same Connection.
SharedStatements == {InsertStmt(Widget), DeleteStmt(1), SelectAllStmt}

SharedNext ==
    \/ ConnConnect
    \/ ConnDisconnect
    \/ \E m \in Managers : Begin(m)
    \/ \E m \in Managers : Commit(m)
    \/ \E m \in Managers : Rollback(m)
    \/ \E m \in Managers, stmt \in SharedStatements : Execute(m, stmt)

SharedSpec == SharedInit /\ [][SharedNext]_vars

\* ================================================================== claims
\* What execute("SELECT * FROM item") through manager m returns in this state.
SelectThrough(m) == TMExecute(Cur, m, SelectAllStmt, "none").ret

RowOf(id, item) == [id |-> id, name |-> item.name, price |-> item.price]

\* C1: a new manager is Idle; a begin() that returns leaves it Active; a
\* commit() or rollback() that returns leaves it Idle; and
\* is_transaction_active is true exactly when a begin() has returned and no
\* commit() or rollback() has returned since.
C1_StateMachine ==
    /\ \A m \in Managers : IsTransactionActive(Cur, m) <=> tx[m].begun
    /\ last.op = "none" => \A m \in Managers : ~IsTransactionActive(Cur, m)
    /\ (last.op = "begin" /\ last.ok) => IsTransactionActive(Cur, last.m)
    /\ (last.op \in {"commit", "rollback"} /\ last.ok)
          => ~IsTransactionActive(Cur, last.m)

C1_Witness ==
    /\ last.op \in {"commit", "rollback"}
    /\ last.ok
    /\ last.preActive
    /\ ~IsTransactionActive(Cur, last.m)

\* C2 (as claimed): on an SQL backend, while a manager is Active and only it
\* is called, the statements executed since begin() are held uncommitted on
\* its handle in the order issued and the durable table is the one begin()
\* found, whatever calls were made on the manager.
C2_AsClaimed ==
    \A m \in Managers :
        (db_type \in SqlBackends /\ tx[m].begun /\ tx[m].track /\ tx[m].ended = "")
        => LET p == pending[mgrConn[m]]
               n == Len(tx[m].log)
           IN /\ durable = tx[m].atBegin
              /\ Len(p) >= n
              /\ SubSeq(p, Len(p) - n + 1, Len(p)) = tx[m].log

\* C3: on an SQL backend an execute() of a mutating statement made while Idle
\* that returns has committed: its last native call is the commit, nothing is
\* left uncommitted on the handle, and the durable table shows the statement.
C3_Autocommit ==
    (/\ db_type \in SqlBackends
     /\ last.op = "execute" /\ last.ok
     /\ IsMutating(last.stmt) /\ ~last.preActive)
    => /\ pending[mgrConn[last.m]] = <<>>
       /\ last.nat # <<>> /\ last.nat[Len(last.nat)] = "commit"
       /\ CASE last.stmt.kind = "insert" ->
                 durable[IF db_type = MYSQL THEN autoInc ELSE MaxUsed(durable)]
                    = last.stmt.item
            [] last.stmt.kind = "update" ->
                 last.ret = <<[affected_rows |-> 1]>>
                    => durable[last.stmt.id] = last.stmt.item
            [] OTHER -> durable[last.stmt.id] = NoItem

C3_Witness ==
    /\ db_type \in SqlBackends
    /\ last.op = "execute" /\ last.ok
    /\ last.stmt.kind = "insert" /\ ~last.preActive
    /\ durable # EmptyTable

\* The transaction of m was begin(), then only execute() calls of mutating
\* statements that returned, then the call `op`, with no other call between.
PlainlyEnded(m, op) == tx[m].ended = op /\ tx[m].track /\ tx[m].plain

\* C4: on an SQL backend, after begin(); execute(insert); rollback() (and after
\* any such transaction of mutating statements ended by rollback()) the durable
\* table is the one the transaction began with and a SELECT through the
\* manager returns exactly its rows (none when it was empty).
C4_RollbackNoTrace ==
    \A m \in Managers :
        (db_type \in SqlBackends /\ PlainlyEnded(m, "rollback") /\ tx[m].log # <<>>)
        => /\ durable = tx[m].atBegin
           /\ SelectThrough(m) = Rows(tx[m].atBegin)

C4_Witness ==
    \E m \in Managers :
        /\ db_type \in SqlBackends
        /\ PlainlyEnded(m, "rollback")
        /\ Len(tx[m].log) = 1 /\ tx[m].log[1].kind = "insert"
        /\ SelectThrough(m) = <<>>

C6_AsClaimed ==
    \A m \in Managers :
        (PlainlyEnded(m, "commit") /\ tx[m].log = <<>>) => durable = tx[m].before

\* C7: for every backend, commit() and rollback() on an Idle manager return
\* without a native call and change nothing: the manager stays Idle and the
\* handles and the durable table are as before.
C7_IdleNoOp ==
    /\ \A m \in Managers :
          ~IsTransactionActive(Cur, m)
          => \A fault \in {"none", "commit", "rollback"} :
                LET c == TMCommit(Cur, m, fault)
                    r == TMRollback(Cur, m, fault)
                IN /\ c.ok /\ c.nat = <<>> /\ c.s = Cur
                   /\ r.ok /\ r.nat = <<>> /\ r.s = Cur
    /\ (last.op \in {"commit", "rollback"} /\ ~last.preActive)
          => last.ok /\ last.nat = <<>> /\ ~IsTransactionActive(Cur, last.m)

C7_Witness ==
    /\ last.op \in {"commit", "rollback"}
    /\ ~last.preActive
    /\ last.ok
    /\ mgrConn[last.m] # None
    /\ pending[mgrConn[last.m]] # <<>>

\* C8 (as claimed): for every backend, begin() on an Active manager raises,
\* and the statements issued since the first begin() are not made durable by it.
C8_AsClaimed ==
    (last.op = "begin" /\ last.preActive)
    => /\ ~last.ok
       /\ tx[last.m].track => durable = tx[last.m].atBegin

\* C9: on firestore every execute(), Idle or Active, raises the
\* NotImplementedError that names the statement, and leaves the active flag,
\* the handles and the store as they were.
C9_FirestoreExecute ==
    db_type = FIRESTORE
    => /\ \A m \in Managers, stmt \in Statements :
             LET r == TMExecute(Cur, m, stmt, "none")
             IN ~r.ok /\ r.err = "NotImplementedError" /\ r.sql = stmt /\ r.s = Cur
       /\ last.op = "execute"
             => /\ ~last.ok
                /\ last.err = "NotImplementedError"
                /\ last.sql = last.stmt
                /\ IsTransactionActive(Cur, last.m) = last.preActive
                /\ durable = EmptyTable

C9_Witness ==
    /\ db_type = FIRESTORE
    /\ last.op = "execute"
    /\ last.stmt.kind = "insert"
    /\ last.preActive
    /\ ~last.ok
    /\ IsTransactionActive(Cur, last.m)

\* The calls of kind `call` that request p made and that returned.
Succeeded(p, call) ==
    {i \in 1..Len(proc[p].trail) :
        proc[p].trail[i].call = call /\ proc[p].trail[i].ok}

\* C10: in each ItemInteractor operation, when begin(), the repository call
\* and commit() all succeed, the operation made exactly these three calls in
\* this order (one begin, then the repository call, then one commit, and no
\* rollback), the repository got the manager begin() and commit() were called
\* on, and the operation returned the repository's result.
C10_HappyPath ==
    \A p \in Procs :
        (/\ Succeeded(p, "begin") # {}
         /\ Succeeded(p, "repo") # {}
         /\ Succeeded(p, "commit") # {})
        => /\ Len(proc[p].trail) = 3
           /\ proc[p].trail[1].call = "begin"
           /\ proc[p].trail[2].call = "repo"
           /\ proc[p].trail[3].call = "commit"
           /\ proc[p].trail[2].m = proc[p].trail[1].m
           /\ proc[p].trail[3].m = proc[p].trail[1].m
           /\ proc[p].pc = "returned"
           /\ proc[p].result = proc[p].repoValue

C10_Witness ==
    /\ proc[1].pc = "returned"
    /\ proc[1].opr.name = "create_item"
    /\ proc[2].pc = "returned"
    /\ proc[2].opr.name = "get_items"
    /\ proc[2].result.rows # <<>>
    /\ Succeeded(2, "commit") # {}

\* The calls of kind `call` that request p made, returned or raised.
Made(p, call) ==
    {i \in 1..Len(proc[p].trail) : proc[p].trail[i].call = call}

\* The repository call of request p raised.
RepoRaised(p) == Made(p, "repo") # {} /\ Succeeded(p, "repo") = {}

\* C11 (as claimed): in every ItemInteractor operation whose repository call
\* raised and that has completed, rollback() was called exactly once, commit()
\* was not called, and the caller got the repository's exception.
C11_AsClaimed ==
    \A p \in Procs :
        (RepoRaised(p) /\ proc[p].pc = "raised")
        => /\ Cardinality(Made(p, "rollback")) = 1
           /\ Made(p, "commit") = {}
           /\ proc[p].raised = proc[p].exc

\* C12 (as claimed): every ItemInteractor operation in which begin(), the
\* repository call or commit() raised has, once completed, attempted
\* rollback() and handed the caller that original fault, whether the
\* rollback() returned or raised.
C12_AsClaimed ==
    \A p \in Procs :
        proc[p].pc = "raised"
        => /\ Made(p, "rollback") # {}
           /\ proc[p].raised = proc[p].exc

\* C13 (as claimed): whenever the execute() of an ItemInteractor operation's
\* repository call raised, read or write, the operation goes on to rollback()
\* and not to commit(), and its caller gets that error.
C13_AsClaimed ==
    \A p \in Procs :
        proc[p].execErr # ""
        => /\ proc[p].pc \in {"rollback", "raised"}
           /\ Made(p, "commit") = {}
           /\ proc[p].pc = "raised" => proc[p].raised = proc[p].execErr

\* C14: when connection.execute() raises, ItemDatastore.get_items returns the
\* empty list and get_item returns None without raising, and create_item,
\* update_item and delete_item raise the same exception.
C14_DatastoreFaults ==
    /\ \A opr \in Operations, fault \in {"connect", "execute", "commit"} :
          LET x == TMExecute(Cur, ContainerManager, DatastoreStmt(opr), fault)
              d == DatastoreOutcome(opr, x)
          IN (HandleRoom(ContainerManager)
              /\ StoreRoom(ContainerManager, DatastoreStmt(opr)) /\ ~x.ok) =>
                CASE opr.name = "get_items" -> d.ok /\ d.value = Value("list", <<>>)
                  [] opr.name = "get_item" -> d.ok /\ d.value = NoneValue
                  [] OTHER -> ~d.ok /\ d.err = x.err
    /\ \A p \in Procs :
          proc[p].execErr # ""
          => CASE proc[p].opr.name = "get_items" ->
                    Succeeded(p, "repo") # {} /\ proc[p].repoValue = Value("list", <<>>)
               [] proc[p].opr.name = "get_item" ->
                    Succeeded(p, "repo") # {} /\ proc[p].repoValue = NoneValue
               [] OTHER -> RepoRaised(p) /\ proc[p].exc = proc[p].execErr

C14_Witness ==
    /\ proc[1].opr.name = "get_items"
    /\ proc[1].execErr # ""
    /\ proc[1].pc = "returned"
    /\ proc[1].result = Value("list", <<>>)
    /\ proc[2].opr.name = "create_item"
    /\ proc[2].execErr # ""
    /\ proc[2].pc = "raised"

\* Request p is between its begin() and its commit()/rollback() on manager m.
InTransaction(p, m) ==
    /\ Succeeded(p, "begin") # {}
    /\ proc[p].trail[1].m = m
    /\ proc[p].pc \in {"repo", "commit", "rollback"}

\* C15 (as claimed): with the container's wiring, no two operations in flight
\* are between their begin() and their commit()/rollback() on the same
\* Transaction Manager at the same time.
C15_AsClaimed ==
    \A p, q \in Procs, m \in Managers :
        (p # q /\ InTransaction(p, m)) => ~InTransaction(q, m)

\* C16 (as claimed): on every backend a connect() that returns while the
\* Connection already holds a handle returns that handle and opens no other.
C16_AsClaimed ==
    [][(last'.op = "connect" /\ last'.ok /\ connHandle # None)
        => (/\ last'.ret = connHandle
            /\ connHandle' = connHandle
            /\ nextHandle' = nextHandle)]_vars

\* C17: on every backend disconnect() returns and leaves the Connection
\* holding no handle (an SQL handle it held is closed), a connect() after it
\* opens a handle never used before, and disconnect() on a Connection that
\* holds none returns without a native call and changes nothing.
C17_Disconnect ==
    /\ last.op = "disconnect" => last.ok /\ connHandle = None
    /\ LET d == Disconnect(Cur)
       IN /\ d.ok /\ d.s.connHandle = None
          /\ connHandle = None => d.s = Cur /\ d.nat = <<>>
          /\ (connHandle # None /\ db_type \in SqlBackends)
                => ~d.s.hOpen[connHandle] /\ d.nat = <<"close">>
          /\ nextHandle < MaxHandles
                => LET c == Connect(d.s, "none")
                   IN /\ c.ok /\ c.s.connHandle = c.ret
                      /\ ~hOpen[c.ret] /\ c.ret > nextHandle
                      /\ c.s.hOpen[c.ret]

C17_Witness ==
    /\ db_type \in SqlBackends
    /\ last.op = "disconnect"
    /\ last.nat = <<>>
    /\ nextHandle > 0
    /\ \A h \in Handles : ~hOpen[h]

\* C18 (as claimed): on sqlite and mysql, once a disconnect() has returned no
\* native handle opened through the Connection is still open.
C18_AsClaimed ==
    (db_type \in SqlBackends /\ last.op = "disconnect" /\ last.ok)
    => \A h \in Handles : ~hOpen[h]

\* The native calls the last call made include `call`.
LastMade(call) == \E i \in 1..Len(last.nat) : last.nat[i] = call

\* C19: create_connection and create_manager only construct: for every
\* configuration the Connection returned holds no handle, the manager returned
\* is Idle with no cached handle, and neither makes a native call; before the
\* first call nothing is connected, and a native connect is only ever made by
\* connect(), begin() or execute().
C19_FactoriesOnlyConstruct ==
    /\ \A cfg \in Configs :
          LET c == CreateConnection(cfg)
              m == CreateManager(c.obj, cfg)
          IN /\ c.nat = <<>> /\ m.nat = <<>>
             /\ c.ok => c.obj.handle = None
             /\ m.ok => /\ m.obj.connection_obj = None
                        /\ ~m.obj.transaction_active
                        /\ m.obj.connection = c.obj
    /\ last.op = "none"
          => /\ connHandle = None /\ nextHandle = 0
             /\ \A h \in Handles : ~hOpen[h]
             /\ \A m \in Managers : mgrConn[m] = None /\ ~IsTransactionActive(Cur, m)
    /\ LastMade("connect") => last.op \in {"connect", "begin", "execute"}
    /\ nextHandle > 0 => last.op # "none"

C19_Witness ==
    /\ last.op \in {"begin", "execute"}
    /\ LastMade("connect")
    /\ last.ok
    /\ nextHandle = 1
    /\ mgrConn[last.m] = 1

\* C20: both factories dispatch on config.db_type: sqlite, mysql and firestore
\* give the Connection and the Transaction Manager of that kind (the firestore
\* Connection only with a project id, the ValueError asking for it otherwise),
\* and every other kind makes both raise the unsupported-type ValueError and
\* construct nothing.
C20_FactoryDispatch ==
    /\ built.connection.called =>
          CASE config.db_type \in SqlBackends ->
                  built.connection.ok /\ built.connection.obj.kind = config.db_type
            [] config.db_type = FIRESTORE ->
                  IF config.firestore_project_id \in {NoneStr, ""}
                  THEN /\ ~built.connection.ok
                       /\ built.connection.err
                             = "ValueError: Firestore project ID must be provided"
                       /\ built.connection.obj = NoConnection
                  ELSE built.connection.ok /\ built.connection.obj.kind = FIRESTORE
            [] OTHER ->
                  /\ ~built.connection.ok
                  /\ built.connection.err = "ValueError: Unsupported database type"
                  /\ built.connection.obj = NoConnection
    /\ built.manager.called =>
          IF config.db_type \in Backends
          THEN built.manager.ok /\ built.manager.obj.kind = config.db_type
          ELSE /\ ~built.manager.ok
               /\ built.manager.err = "ValueError: Unsupported database type"
               /\ built.manager.obj = NoManager

C20_Witness ==
    /\ config.db_type \notin Backends
    /\ built.connection.called /\ ~built.connection.ok
    /\ built.manager.called /\ ~built.manager.ok

\* The backend kind from_env reads from the environment.
SelectedKind == Lower(Getenv(env, "DB_TYPE", SQLITE))

\* C21: with DB_TYPE=firestore and FIRESTORE_PROJECT_ID unset, construction
\* fails with the configuration error (the ValueError asking for the project
\* id) as soon as the Connection is asked for: no Connection and no
\* Transaction Manager are ever built, no API call is made and no native
\* handle is ever opened.
C21_FailsBeforeConnect ==
    (SelectedKind = FIRESTORE /\ env.FIRESTORE_PROJECT_ID = Unset) =>
        /\ built.connection.called =>
              /\ ~built.connection.ok
              /\ built.connection.err
                    = "ValueError: Firestore project ID must be provided"
              /\ built.connection.obj = NoConnection
        /\ ~built.manager.called
        /\ last.op = "none"
        /\ nextHandle = 0 /\ connHandle = None
        /\ \A m \in Managers : mgrConn[m] = None

C21_Witness ==
    /\ SelectedKind = FIRESTORE /\ env.FIRESTORE_PROJECT_ID = Unset
    /\ built.config.ok
    /\ built.connection.called /\ ~built.connection.ok

\* C22: from_env itself fails when DB_TYPE names no supported backend or
\* when the project id firestore cannot do without is unset: once it has been
\* called on such an environment it has raised and returned no config.
C22_AsClaimed ==
    (/\ built.config.called
     /\ \/ SelectedKind \notin Backends
        \/ SelectedKind = FIRESTORE /\ env.FIRESTORE_PROJECT_ID = Unset)
        => /\ ~built.config.ok
           /\ config = NoConfig

\* What `field or default` gives for a mysql variable of the environment.
MySQLFieldOr(name, default) ==
    IF env[name] \in {Unset, ""} THEN default ELSE env[name]

\* C23: with DB_TYPE=mysql and MYSQL_PASSWORD unset (or empty) from_env does
\* not fail for it (it fails only on a MYSQL_PORT that is no number) and
\* resolves the password to "", and create_connection hands "" unchanged to
\* the MySQLConnection, every other unset or empty field taking its default.
C23_EmptyPassword ==
    (SelectedKind = MYSQL /\ env.MYSQL_PASSWORD \in {Unset, ""}) =>
        /\ built.config.called =>
              /\ built.config.ok
                    <=> IsNumeral(Getenv(env, "MYSQL_PORT", StrOfInt(DEFAULT_MYSQL_PORT)))
              /\ built.config.ok => config.mysql_password = ""
        /\ built.connection.called =>
              /\ built.connection.ok
              /\ built.connection.obj.kind = MYSQL
              /\ built.connection.obj.password = ""
              /\ built.connection.obj.host = MySQLFieldOr("MYSQL_HOST", DEFAULT_MYSQL_HOST)
              /\ built.connection.obj.port
                    = IF env.MYSQL_PORT \in {Unset, "0"} THEN DEFAULT_MYSQL_PORT
                      ELSE IntOfStr(env.MYSQL_PORT)
              /\ built.connection.obj.user = MySQLFieldOr("MYSQL_USER", DEFAULT_MYSQL_USER)
              /\ built.connection.obj.database
                    = MySQLFieldOr("MYSQL_DATABASE", DEFAULT_MYSQL_DATABASE)

C23_Witness ==
    /\ SelectedKind = MYSQL /\ env.MYSQL_PASSWORD = Unset
    /\ env.MYSQL_HOST = "" /\ env.MYSQL_PORT = "0"
    /\ built.config.ok /\ config.mysql_password = ""
    /\ built.connection.ok /\ built.connection.obj.password = ""

\* The Connection the container built, with the handle it holds now.
TheConnection == [built.connection.obj EXCEPT !.handle = connHandle]

\* The passwords a Connection can have been given.
Passwords == {NoneStr, "", "secret", "hunter2"}

\* C24: whatever its backend and whether it was never connected, is connected
\* or was disconnected, a Connection's get_connection_info has no password
\* entry and is the same for every password the Connection could hold.
C24_NoPassword ==
    built.connection.ok =>
        /\ "password" \notin DOMAIN GetConnectionInfo(TheConnection)
        /\ GetConnectionInfo(TheConnection).type = TheConnection.kind
        /\ \A pw \in Passwords :
              GetConnectionInfo([TheConnection EXCEPT !.password = pw])
                = GetConnectionInfo(TheConnection)

C24_Witness ==
    /\ built.connection.ok
    /\ TheConnection.kind = MYSQL /\ TheConnection.password = "secret"
    /\ last.op = "disconnect" /\ nextHandle > 0 /\ TheConnection.handle = None

\* The table the handle of manager m shows before and after the step.
SeenBefore(m) ==
    IF mgrConn[m] # None THEN View(Cur, mgrConn[m])
    ELSE IF db_type = SQLITE /\ connHandle # None THEN View(Cur, connHandle)
    ELSE durable

SeenAfter(m) == ApplyAll(durable', pending'[mgrConn'[m]])

\* The rows a mutating statement touches: the row it inserts, or the rows of
\* the table that match its WHERE clause; and the rows a step changed.
Matched(table, stmt) ==
    IF stmt.kind = "insert" THEN 1
    ELSE Cardinality({i \in Ids : i = stmt.id /\ table[i] # NoItem})

Changed(m) == Cardinality({i \in Ids : SeenBefore(m)[i] # SeenAfter(m)[i]})

\* C25: on an SQL backend every execute() of a mutating statement that
\* returns, made Idle or Active, returns exactly one row, whose only key is
\* affected_rows and whose value is the number of rows the statement touched:
\* the rows it inserted or deleted, or the rows its UPDATE matched (on MySQL,
\* which reports changed rows, the rows the UPDATE changed).
C25_AffectedRows ==
    [][(/\ db_type \in SqlBackends
        /\ last'.op = "execute" /\ last'.ok /\ IsMutating(last'.stmt))
       => /\ Len(last'.ret) = 1
          /\ DOMAIN last'.ret[1] = {"affected_rows"}
          /\ last'.ret[1].affected_rows
                = IF last'.stmt.kind = "update" /\ db_type = SQLITE
                  THEN Matched(SeenBefore(last'.m), last'.stmt)
                  ELSE Changed(last'.m)
          /\ last'.ret[1].affected_rows <= Matched(SeenBefore(last'.m), last'.stmt)
      ]_vars

C25_Witness ==
    /\ db_type \in SqlBackends
    /\ last.op = "execute" /\ last.ok /\ last.preActive
    /\ last.stmt.kind = "update"
    /\ last.ret = <<[affected_rows |-> 1]>>

\* C26: on an SQL backend every execute() of a read statement that returns
\* has returned the rows the statement matches, in order, one mapping per row
\* keyed by the selected columns, never the affected-rows marker, and has made
\* no native commit.
C26_AsClaimed ==
    (/\ db_type \in SqlBackends
     /\ last.op = "execute" /\ last.ok /\ ~IsMutating(last.stmt))
    => /\ last.ret = FetchAll(ManagerView(Cur, last.m), last.stmt)
       /\ \A i \in 1..Len(last.ret) : DOMAIN last.ret[i] = {"id", "name", "price"}
       /\ ~LastMade("commit")

\* The backend kinds of which a config has some field set.
Populated(cfg) ==
    (IF cfg.sqlite_path # NoneStr THEN {SQLITE} ELSE {})
    \cup (IF \/ cfg.mysql_host # NoneStr \/ cfg.mysql_port # None
             \/ cfg.mysql_user # NoneStr \/ cfg.mysql_password # NoneStr
             \/ cfg.mysql_database # NoneStr
          THEN {MYSQL} ELSE {})
    \cup (IF \/ cfg.firestore_project_id # NoneStr
             \/ cfg.firestore_credentials_path # NoneStr
          THEN {FIRESTORE} ELSE {})

\* C27: every config from_env returns has exactly one variant populated, the
\* one of the kind DB_TYPE selects (sqlite when DB_TYPE is unset), the fields
\* of the other two kinds being None, and each field of that kind that has a
\* default holds the value of its variable, or the default when it is unset.
C27_AsClaimed ==
    built.config.ok =>
        /\ config.db_type = SelectedKind
        /\ env.DB_TYPE = Unset => config.db_type = SQLITE
        /\ Populated(config) = {config.db_type}
        /\ config.db_type = SQLITE =>
              config.sqlite_path = Getenv(env, "SQLITE_DB_PATH", DEFAULT_SQLITE_PATH)
        /\ config.db_type = MYSQL =>
              /\ config.mysql_host = Getenv(env, "MYSQL_HOST", DEFAULT_MYSQL_HOST)
              /\ config.mysql_port
                    = IF env.MYSQL_PORT = Unset THEN DEFAULT_MYSQL_PORT
                      ELSE IntOfStr(env.MYSQL_PORT)
              /\ config.mysql_user = Getenv(env, "MYSQL_USER", DEFAULT_MYSQL_USER)
              /\ config.mysql_password
                    = Getenv(env, "MYSQL_PASSWORD", DEFAULT_MYSQL_PASSWORD)
              /\ config.mysql_database
                    = Getenv(env, "MYSQL_DATABASE", DEFAULT_MYSQL_DATABASE)

\* Request p runs create_item and is the only request that writes an item:
\* every other operation started so far is the one request q runs, and it
\* neither creates nor updates.
OnlyWriter(p, q) ==
    /\ p # q
    /\ proc[p].opr.name = "create_item"
    /\ proc[q].opr.name \notin {"create_item", "update_item"}
    /\ started = 1 \/ proc[q].opr # NoOperation

\* C28: on an SQL backend, whatever the interleaving of two operations that
\* use the container's Transaction Manager, the item an operation creates is
\* in the durable table only once that operation's own commit() has returned,
\* and never when the operation ended in rollback().
C28_AsClaimed ==
    \A p, q \in Procs :
        (db_type \in SqlBackends /\ OnlyWriter(p, q))
        => /\ Succeeded(p, "commit") = {} => durable = EmptyTable
           /\ (proc[p].pc = "raised" /\ Succeeded(p, "rollback") # {})
                 => durable = EmptyTable

\* Manager k is in an Active transaction whose buffered statements are all
\* that its handle holds uncommitted.
Buffering(k) ==
    /\ active[k] /\ mgrConn[k] # None
    /\ tx[k].begun /\ tx[k].track /\ tx[k].plain
    /\ tx[k].log # <<>> /\ tx[k].log = pending[mgrConn[k]]

\* The step is a commit(), a rollback() or an Idle-mode execute() of a
\* mutating statement through manager m.
EndsOrAutocommits(m) ==
    /\ last'.m = m
    /\ \/ last'.op \in {"commit", "rollback"}
       \/ last'.op = "execute" /\ IsMutating(last'.stmt) /\ ~last'.preActive

\* C29: with two Transaction Managers built on one Connection, a commit(), a
\* rollback() or an Idle-mode autocommitting execute() through one of them
\* leaves the statements buffered in the other's Active transaction as they
\* were: still uncommitted on its handle, neither durable nor discarded.
C29_AsClaimed ==
    [][\A m, k \in Managers :
          (m # k /\ Buffering(k) /\ EndsOrAutocommits(m))
          => /\ mgrConn'[k] = mgrConn[k] /\ active'[k]
             /\ pending'[mgrConn[k]] = pending[mgrConn[k]]
      ]_vars

\* C30: once an ItemInteractor operation has completed, returned or raised,
\* and no other operation has been started, its Transaction Manager is Idle
\* and its handle holds no uncommitted statement.
C30_AsClaimed ==
    \A p \in Procs :
        (started = 1 /\ proc[p].pc \in {"returned", "raised"})
        => /\ ~IsTransactionActive(Cur, InteractorManager(p))
           /\ mgrConn[InteractorManager(p)] # None
                 => pending[mgrConn[InteractorManager(p)]] = <<>>

\* The rows of a sequence, as a set.
RowSet(rows) == {rows[i] : i \in 1..Len(rows)}

\* C31: on an SQL backend, inside an Active transaction, a SELECT through the
\* manager shows the transaction's uncommitted writes: after an execute() of
\* an INSERT, still uncommitted on the handle, it returns the inserted row,
\* after an UPDATE that affected a row the updated values, after a DELETE no
\* row of that id; and an execute() of a SELECT returns the rows of the
\* durable table with the uncommitted statements applied in issue order.
C31_ReadYourWrites ==
    (/\ db_type \in SqlBackends
     /\ last.op = "execute" /\ last.ok /\ last.preActive)
    => LET m == last.m
           h == mgrConn[m]
       IN IF IsMutating(last.stmt)
          THEN /\ pending[h] # <<>>
               /\ LET st == pending[h][Len(pending[h])]
                  IN /\ st.kind = last.stmt.kind /\ st.item = last.stmt.item
                     /\ CASE st.kind = "insert" ->
                               RowOf(st.id, st.item) \in RowSet(SelectThrough(m))
                          [] st.kind = "update" ->
                               IF last.ret = <<[affected_rows |-> 1]>>
                               THEN RowOf(st.id, st.item) \in RowSet(SelectThrough(m))
                               ELSE \A r \in RowSet(SelectThrough(m)) :
                                       r.id = st.id => db_type = MYSQL /\ r = RowOf(st.id, st.item)
                          [] OTHER ->
                               \A r \in RowSet(SelectThrough(m)) : r.id # st.id
          ELSE StartsWithSelect(last.stmt)
                  => last.ret = FetchAll(ApplyAll(durable, pending[h]), last.stmt)

C31_Witness ==
    /\ db_type \in SqlBackends
    /\ last.op = "execute" /\ last.ok /\ last.preActive
    /\ last.stmt = SelectOneStmt(1)
    /\ last.ret = <<RowOf(1, Gadget)>>
    /\ durable = EmptyTable

\* The number of native calls of kind `call` the last call made.
LastCount(call) == Cardinality({i \in 1..Len(last.nat) : last.nat[i] = call})

\* C32: a begin() that fails (its lazy connect() raised or, on MySQL, the
\* native BEGIN raised) hands the fault to the caller after at most one
\* native connect and one native BEGIN, and leaves the active flag as it was:
\* a manager that was Idle is still Idle, and a commit() or rollback() that
\* follows returns without a native call and changes nothing.
C32_BeginFails ==
    (last.op = "begin" /\ ~last.ok)
    => LET m == last.m
       IN /\ last.err \in {"connect", "begin"}
          /\ LastCount("connect") <= 1 /\ LastCount("begin") <= 1
          /\ last.err = "connect" => last.nat = <<"connect">> /\ mgrConn[m] = None
          /\ last.err = "begin" => db_type = MYSQL /\ mgrConn[m] # None
          /\ IsTransactionActive(Cur, m) = last.preActive
          /\ ~last.preActive
                => /\ ~IsTransactionActive(Cur, m)
                   /\ \A fault \in {"none", "commit", "rollback"} :
                         LET c == TMCommit(Cur, m, fault)
                             r == TMRollback(Cur, m, fault)
                         IN /\ c.ok /\ c.nat = <<>> /\ c.s = Cur
                            /\ r.ok /\ r.nat = <<>> /\ r.s = Cur

C32_Witness ==
    /\ db_type = MYSQL
    /\ last.op = "begin" /\ ~last.ok /\ ~last.preActive
    /\ last.nat = <<"connect", "begin">>
    /\ mgrConn[last.m] # None
    /\ ~IsTransactionActive(Cur, last.m)

\* The commit() of request p raised.
CommitRaised(p) == Made(p, "commit") # {} /\ Succeeded(p, "commit") = {}

\* C33: on an SQL backend a commit() raises only when its native commit
\* raised, and it leaves the manager Active; the rollback() called next on
\* the manager then makes one native rollback and leaves the manager Idle,
\* its handle without uncommitted statements and the durable table as it
\* was. An ItemInteractor operation running alone whose commit() raised has,
\* once its rollback() returned, an Idle manager and persisted nothing.
C33_CommitFails ==
    db_type \in SqlBackends
    => /\ (last.op = "commit" /\ ~last.ok)
             => LET m == last.m
                    h == mgrConn[m]
                    r == TMRollback(Cur, m, "none")
                IN /\ last.preActive
                   /\ last.err = "commit" /\ last.nat = <<"commit">>
                   /\ IsTransactionActive(Cur, m)
                   /\ r.ok /\ r.nat = <<"rollback">>
                   /\ ~IsTransactionActive(r.s, m)
                   /\ r.s.pending[h] = <<>>
                   /\ r.s.durable = durable
       /\ \A p \in Procs :
             (started = 1 /\ CommitRaised(p))
             => /\ durable = EmptyTable
                /\ proc[p].pc \in {"rollback", "raised"}
                /\ Succeeded(p, "rollback") # {}
                      => /\ last.op = "rollback" /\ last.nat = <<"rollback">>
                         /\ proc[p].pc = "raised" /\ proc[p].raised = "commit"
                         /\ ~IsTransactionActive(Cur, InteractorManager(p))
                         /\ pending[mgrConn[InteractorManager(p)]] = <<>>

C33_Witness ==
    \E p \in Procs :
        /\ db_type \in SqlBackends
        /\ started = 1
        /\ proc[p].opr.name = "create_item"
        /\ CommitRaised(p)
        /\ Succeeded(p, "rollback") # {}
        /\ proc[p].pc = "raised"
        /\ ~IsTransactionActive(Cur, InteractorManager(p))
        /\ durable = EmptyTable

\* C34: on every backend execute() leaves the active flag of every manager
\* as it was, whether it returns or raises (at connect, at the statement or
\* at the autocommit), Idle or Active.
C34_ExecuteKeepsFlag ==
    /\ last.op = "execute" => IsTransactionActive(Cur, last.m) = last.preActive
    /\ \A m \in Managers, stmt \in Statements :
          ((db_type \in SqlBackends => HandleRoom(m)) /\ StoreRoom(m, stmt))
          => \A fault \in {"none", "connect", "execute", "commit"} :
                TMExecute(Cur, m, stmt, fault).s.active = active

C34_Witness ==
    /\ db_type \in SqlBackends
    /\ last.op = "execute" /\ ~last.ok
    /\ last.err = "execute"
    /\ IsMutating(last.stmt)
    /\ last.preActive
    /\ IsTransactionActive(Cur, last.m)

\* C35: a manager asks its Connection for a handle only while it has none
\* cached. A begin() or, on an SQL backend, an execute() that returns leaves
\* the manager with an open handle cached, the one the Connection holds when
\* the manager had none before; once a handle is cached every call of the
\* manager keeps it, opens no handle and makes no native connect; commit()
\* and rollback() never connect, cached handle or not; and no call makes
\* more than one native connect.
C35_LazyConnectOnce ==
    [][\A m \in Managers :
          last'.m = m
          => /\ LastCount("connect")' <= 1
             /\ (last'.ok /\ (last'.op = "begin"
                              \/ (last'.op = "execute" /\ db_type \in SqlBackends)))
                   => /\ mgrConn'[m] # None
                      /\ mgrConn[m] = None
                            => mgrConn'[m] = connHandle' /\ (db_type \in SqlBackends => hOpen'[mgrConn'[m]])
             /\ mgrConn[m] # None
                   => /\ mgrConn'[m] = mgrConn[m]
                      /\ connHandle' = connHandle /\ nextHandle' = nextHandle
                      /\ ~LastMade("connect")'
             /\ last'.op \in {"commit", "rollback"}
                   => /\ mgrConn'[m] = mgrConn[m]
                      /\ connHandle' = connHandle /\ nextHandle' = nextHandle
                      /\ ~LastMade("connect")']_vars

C35_Witness ==
    /\ db_type = MYSQL
    /\ last.op = "begin" /\ last.ok
    /\ last.nat = <<"begin">>
    /\ mgrConn[last.m] # None
    /\ nextHandle = 1

\* The native calls a manager makes on its cached handle.
HandleNatives == {"begin", "execute", "commit", "rollback"}

\* C36 (as claimed): whenever a manager has made a native begin, execute,
\* commit or rollback, the handle it used is the one its Connection holds,
\* and that handle is open.
C36_AsClaimed ==
    (last.m \in Managers /\ \E call \in HandleNatives : LastMade(call))
    => /\ mgrConn[last.m] = connHandle
       /\ hOpen[mgrConn[last.m]]

\* C37: on firestore begin() sets the active flag and, apart from the lazy
\* connect of a manager without a client, changes nothing else; commit() and
\* rollback() make no native call and change nothing but the flag, which
\* they clear: the store, and whatever is on the handles, is after each of the
\* three as it was before.
C37_FirestoreTogglesFlag ==
    db_type = FIRESTORE
    => /\ \A m \in Managers :
             LET b == TMBegin(Cur, m, "none")
                 c == TMCommit(Cur, m, "none")
                 r == TMRollback(Cur, m, "none")
             IN /\ HandleRoom(m)
                      => /\ b.ok /\ IsTransactionActive(b.s, m)
                         /\ b.s.durable = durable /\ b.s.pending = pending
                         /\ b.s.autoInc = autoInc
                         /\ IF mgrConn[m] # None
                            THEN b.nat = <<>> /\ b.s = [Cur EXCEPT !.active[m] = TRUE]
                            ELSE b.nat = <<"connect">>
                /\ c.ok /\ c.nat = <<>> /\ c.s = [Cur EXCEPT !.active[m] = FALSE]
                /\ r.ok /\ r.nat = <<>> /\ r.s = [Cur EXCEPT !.active[m] = FALSE]
       /\ (last.op = "begin" /\ last.ok) => IsTransactionActive(Cur, last.m)
       /\ last.op \in {"commit", "rollback"}
             => last.ok /\ last.nat = <<>> /\ ~IsTransactionActive(Cur, last.m)
       /\ durable = EmptyTable

C37_Witness ==
    /\ db_type = FIRESTORE
    /\ last.op = "rollback" /\ last.ok
    /\ last.preActive
    /\ ~IsTransactionActive(Cur, last.m)
    /\ mgrConn[last.m] # None

====
